---- MODULE Spec2Model ----
(***************************************************************************)
(* Verification model of optillm-rs: the reference streaming backend       *)
(* (providers/ollama.rs), the stream consumers of the strategies, the      *)
(* Solution record, the shared Workspace and the MARS coordinator.         *)
(*                                                                         *)
(* Each subsystem has its own variables and its own specification; a       *)
(* specification holds the variables of the other subsystems at their      *)
(* idle values.                                                            *)
(***************************************************************************)
EXTENDS Integers, Sequences, FiniteSets, TLC

VARIABLES
    \* ---- reference backend: OllamaClient::stream ----
    transport,      \* outcome of the HTTP exchange: "connect_fail", "bad_status", "ok"
    body,           \* response body: the sequence of chunks bytes_stream yields
    bpos,           \* index of the next chunk bytes_stream.next() returns
    buffered,       \* the buffered string (text received, not yet split into lines)
    emitted,        \* the items the stream has yielded so far
    spc,            \* position of the stream generator
    \* ---- a strategy run consuming backend streams ----
    strat,          \* the strategy that runs
    cfg,            \* its configuration
    call,           \* the backend call the run is at
    idx,            \* index of that call in its loop
    cpc,            \* "open": about to call client.stream, "pull": in the
                    \* while let Some(event) loop, "post": after the loop
    cpos,           \* the number of items the stream of this call has yielded
    response_text,  \* the text collected from the deltas of this call
    call_tokens,    \* the token counter local to this call
    total_tokens,   \* the token counter of the run
    acc,            \* what the run has collected from the finished calls
    result,         \* "running", "ok" (with acc as its metadata) or "err"
    observed,       \* sum of the usage of the Completed events pulled so far
    snap,           \* text and counters right after the first Completed of the
                    \* call whose stream is being pulled
    \* ---- one Solution record under verification ----
    sol,            \* the Solution the verification calls are applied to
    \* ---- the shared Workspace ----
    solutions,      \* the Vec<Solution> behind the RwLock
    rw,             \* the RwLock: the task holding the write guard (0: none)
                    \* and the tasks holding read guards
    task,           \* per task: the workspace operation it is in
    lin,            \* the workspace as the operations linearized so far leave it
    \* ---- MarsCoordinator::run ----
    mcfg,           \* the MarsConfig of the coordinator
    mphase,         \* the phase run is in, or "done" / "failed" / "panicked"
    mstep,          \* the send inside the phase that comes next
    mi,             \* the loop indices: i (solution), j (verifier or strategy),
                    \* iteration (improvement round)
    msnap,          \* the local Vec a phase cloned out of the workspace
    pending,        \* the aggregated Solutions phase_aggregation still has to add
    events,         \* the MarsEvents held by the channel (nothing receives)
    nextId,         \* the number of fresh ids (uuids) handed out so far
    network,        \* the strategies registered in the StrategyNetwork
    chosen,         \* what phase_synthesis selected: the Solution and the rule
    output,         \* the MarsOutput run returns
    phaseLog,       \* per phase: has it started, has it finished, and the
                    \* number of Solutions it added
    \* ---- calls of the strategies that work on Solutions already made ----
    rsa,            \* a call of an RSA entry point: its arguments, its locals
                    \* and its result
    mcts,           \* an MCTS search: its configuration, its arena of nodes
                    \* and its result
    pick            \* a call of a selection or voting function: its
                    \* arguments and its result

streamVars == <<transport, body, bpos, buffered, emitted, spc>>

stratVars == <<strat, cfg, call, idx, cpc, cpos, response_text,
               call_tokens, total_tokens, acc, result, observed, snap>>

solVars == <<sol>>

wsCtlVars == <<rw, task, lin>>

wsVars == <<solutions, wsCtlVars>>

marsVars == <<mcfg, mphase, mstep, mi, msnap, pending, events, nextId,
              network, chosen, output, phaseLog>>

callVars == <<rsa, mcts, pick>>

vars == <<streamVars, stratVars, solVars, wsVars, marsVars, callVars>>

nonStreamVars == <<stratVars, solVars, wsVars, marsVars, callVars>>

nonStratVars == <<streamVars, solVars, wsVars, marsVars, callVars>>

nonSolVars == <<streamVars, stratVars, wsVars, marsVars, callVars>>

nonWsVars == <<streamVars, stratVars, solVars, marsVars, callVars>>

nonMarsVars == <<streamVars, stratVars, solVars, wsCtlVars, callVars>>

nonRsaVars == <<streamVars, stratVars, solVars, wsVars, marsVars, mcts, pick>>

nonMctsVars == <<streamVars, stratVars, solVars, wsVars, marsVars, rsa, pick>>

nonPickVars == <<streamVars, stratVars, solVars, wsVars, marsVars, rsa, mcts>>

NoCall == [pc |-> "none"]

\* no call of RSA, MCTS or a selection function is in progress
CallsIdle == rsa = NoCall /\ mcts = NoCall /\ pick = NoCall

(***************************************************************************)
(* Small helpers on sequences.                                             *)
(***************************************************************************)
Last(s) == s[Len(s)]

SeqsUpTo(S, n) == UNION {[1..k -> S] : k \in 0..n}

RECURSIVE CountIf(_, _)
CountIf(s, type) ==
    IF s = <<>> THEN 0
    ELSE (IF Head(s).type = type THEN 1 ELSE 0) + CountIf(Tail(s), type)

(***************************************************************************)
(* Reference backend (crates/mars/src/providers/ollama.rs).                *)
(*                                                                         *)
(* The response body is newline-delimited JSON.  A chunk of the body is    *)
(* one of                                                                  *)
(*   "nl"        a newline                                                 *)
(*   "sp"        whitespace other than a newline                           *)
(*   "delta"     the text of an object, done=false, non-empty content      *)
(*   "empty"     the text of an object, done=false, no or empty content    *)
(*   "done"      the text of an object, done=true,  no or empty content    *)
(*   "donedelta" the text of an object, done=true,  non-empty content      *)
(*   "bad"       text that is not a JSON object                            *)
(*   "err"       bytes_stream yields Err (a transport read error)          *)
(* The lines are cut out of buffered, which accumulates the chunks, so   *)
(* the yielded sequence does not depend on where the chunk boundaries      *)
(* fall; one piece per chunk loses no behaviour.                           *)
(***************************************************************************)
MaxBody == 4

Transports == {"connect_fail", "bad_status", "ok"}

ObjectPieces == {"delta", "empty", "done", "donedelta"}

Pieces == ObjectPieces \cup {"nl", "sp", "bad", "err"}

DeltaEvent == [type |-> "delta"]

CompletedEvent == [type |-> "completed"]

ErrorItem(kind) == [type |-> "error", kind |-> kind]

\* serde: OllamaResponse.done
IsDone(piece) == piece \in {"done", "donedelta"}

\* serde: OllamaResponse.message is Some and its content is not empty
HasContent(piece) == piece \in {"delta", "donedelta"}

\* str::trim
RECURSIVE TrimLeft(_)
TrimLeft(s) == IF s # <<>> /\ Head(s) = "sp" THEN TrimLeft(Tail(s)) ELSE s

RECURSIVE TrimRight(_)
TrimRight(s) ==
    IF s # <<>> /\ Last(s) = "sp" THEN TrimRight(SubSeq(s, 1, Len(s) - 1)) ELSE s

Trim(s) == TrimRight(TrimLeft(s))

\* serde_json::from_str::<OllamaResponse>: Ok exactly for the text of one object
ParsesOk(text) == Len(text) = 1 /\ text[1] \in ObjectPieces

\* buffered.find('\n'): 0 when there is none
RECURSIVE FindNewline(_, _)
FindNewline(s, i) ==
    IF i > Len(s) THEN 0
    ELSE IF s[i] = "nl" THEN i
    ELSE FindNewline(s, i + 1)

\* the items one parsed object of the read loop yields (lines 277-305)
LineItems(piece) ==
    (IF HasContent(piece) THEN <<DeltaEvent>> ELSE <<>>)
        \o (IF IsDone(piece) THEN <<CompletedEvent>> ELSE <<>>)

\* the items the object left in the buffer at end of body yields (lines 321-345)
TailItems(piece) ==
    (IF HasContent(piece) THEN <<DeltaEvent>> ELSE <<>>) \o <<CompletedEvent>>

\* the inner while let Some(newline_pos) = buffered.find('\n') loop
\* (lines 268-315): returns the rest of the buffer, the items yielded and
\* whether a parse error ended the stream
RECURSIVE ProcessLines(_, _)
ProcessLines(buf, out) ==
    LET p == FindNewline(buf, 1) IN
    IF p = 0 THEN [buf |-> buf, out |-> out, failed |-> FALSE]
    ELSE LET line == Trim(SubSeq(buf, 1, p - 1))
             rest == SubSeq(buf, p + 1, Len(buf))
         IN IF line = <<>> THEN ProcessLines(rest, out)
            ELSE IF ParsesOk(line)
                 THEN ProcessLines(rest, out \o LineItems(line[1]))
                 ELSE [buf |-> rest,
                       out |-> Append(out, ErrorItem("ParsingError")),
                       failed |-> TRUE]

StreamStart ==
    /\ transport \in Transports
    /\ body \in SeqsUpTo(Pieces, MaxBody)
    /\ (transport # "ok" => body = <<>>)
    /\ bpos = 1
    /\ buffered = <<>>
    /\ emitted = <<>>
    /\ spc = "send"

\* http_client.post(..).send().await (lines 227-238)
SendRequest ==
    /\ spc = "send"
    /\ IF transport = "connect_fail"
       THEN /\ emitted' = Append(emitted, ErrorItem("ClientError"))
            /\ spc' = "end"
       ELSE /\ emitted' = emitted
            /\ spc' = "status"
    /\ UNCHANGED <<transport, body, bpos, buffered>>
    /\ UNCHANGED nonStreamVars

\* response.status().is_success() (lines 240-246)
CheckStatus ==
    /\ spc = "status"
    /\ IF transport = "bad_status"
       THEN /\ emitted' = Append(emitted, ErrorItem("ClientError"))
            /\ spc' = "end"
       ELSE /\ emitted' = emitted
            /\ spc' = "read"
    /\ UNCHANGED <<transport, body, bpos, buffered>>
    /\ UNCHANGED nonStreamVars

\* one turn of while let Some(result) = bytes_stream.next().await (lines 253-316)
ReadChunk ==
    /\ spc = "read"
    /\ bpos <= Len(body)
    /\ bpos' = bpos + 1
    /\ IF body[bpos] = "err"
       THEN /\ emitted' = Append(emitted, ErrorItem("ClientError"))
            /\ spc' = "end"
            /\ buffered' = buffered
       ELSE LET r == ProcessLines(Append(buffered, body[bpos]), emitted) IN
            /\ buffered' = r.buf
            /\ emitted' = r.out
            /\ spc' = IF r.failed THEN "end" ELSE "read"
    /\ UNCHANGED <<transport, body>>
    /\ UNCHANGED nonStreamVars

\* the body is exhausted: "Process any remaining buffered data" (lines 318-353)
ProcessRemaining ==
    /\ spc = "read"
    /\ bpos > Len(body)
    /\ LET text == Trim(buffered) IN
       emitted' = IF text = <<>> THEN emitted
                  ELSE IF ParsesOk(text) THEN emitted \o TailItems(text[1])
                  ELSE Append(emitted, ErrorItem("ParsingError"))
    /\ spc' = "end"
    /\ UNCHANGED <<transport, body, bpos, buffered>>
    /\ UNCHANGED nonStreamVars

\* no stream is open
StreamIdle ==
    /\ transport = "ok"
    /\ body = <<>>
    /\ bpos = 1
    /\ buffered = <<>>
    /\ emitted = <<>>
    /\ spc = "end"

StreamNext == SendRequest \/ CheckStatus \/ ReadChunk \/ ProcessRemaining

(***************************************************************************)
(* C1: the sequence a stream emits contains at most one Completed event    *)
(* and nothing (delta, Completed or error) follows that Completed.         *)
(***************************************************************************)
C1_CompletedIsLast ==
    \A i \in 1..Len(emitted) :
        emitted[i].type = "completed" => i = Len(emitted)

(***************************************************************************)
(* C2: when the transport fails (connection failure, non-2xx status or an  *)
(* error while reading the body) the stream yields exactly one error item, *)
(* ends right after it and contains no Completed.                          *)
(***************************************************************************)
TransportFailed ==
    /\ emitted # <<>>
    /\ Last(emitted) = ErrorItem("ClientError")

C2_TransportErrorEndsStream ==
    TransportFailed =>
        /\ spc = "end"
        /\ CountIf(emitted, "error") = 1
        /\ CountIf(emitted, "completed") = 0

(***************************************************************************)
(* Strategies consuming backend streams                                    *)
(* (strategies/best_of_n, self_consistency, rto, moa).                     *)
(*                                                                         *)
(* client is a dyn ModelClient: a stream is any finite sequence of        *)
(* deltas, Completed events and error items, produced one item at a time   *)
(* as the consumer pulls.  A delta is a piece of text:                     *)
(* "a" stands for the four letters "abcd", "7" for the digit 7, "sp" for a *)
(* blank, "nl" for a newline and "fence" for a code fence.                 *)
(***************************************************************************)
MaxEvents == 2

MaxCandidates == 2

MaxCompletions == 3

Deltas == {"a"}

NoUsage == [some |-> FALSE, input_tokens |-> 0, output_tokens |-> 0]

SomeUsage(i, o) == [some |-> TRUE, input_tokens |-> i, output_tokens |-> o]

Usages == {NoUsage, SomeUsage(1, 2)}

Delta(d) == [type |-> "delta", delta |-> d]

Completed(u) == [type |-> "completed", usage |-> u]

StreamItems ==
    {Delta(d) : d \in Deltas} \cup {Completed(u) : u \in Usages}
        \cup {ErrorItem("ClientError")}

\* TokenUsage::total_tokens
UsageTotal(u) == u.input_tokens + u.output_tokens

Min(a, b) == IF a < b THEN a ELSE b

\* The bodies of the while let Some(event) = stream.next().await loops:
\* the text and the token counter after one item, and how the loop goes on
\* ("next": pull again, "break": leave the loop, "fail": return Err).

\* run_best_of_n
BestOfNOnEvent(ev, text, total) ==
    CASE ev.type = "delta" ->
            [text |-> Append(text, ev.delta), total |-> total, ctl |-> "next"]
      [] ev.type = "completed" ->
            [text |-> text,
             total |-> IF ev.usage.some THEN total + UsageTotal(ev.usage) ELSE total,
             ctl |-> "next"]
      [] ev.type = "error" ->
            [text |-> text, total |-> total, ctl |-> "fail"]

\* run_self_consistency
SelfConsistencyOnEvent(ev, text, total) ==
    CASE ev.type = "delta" ->
            [text |-> Append(text, ev.delta), total |-> total, ctl |-> "next"]
      [] ev.type = "completed" ->
            [text |-> text,
             total |-> IF ev.usage.some THEN total + UsageTotal(ev.usage) ELSE total,
             ctl |-> "next"]
      [] ev.type = "error" ->
            [text |-> text, total |-> total, ctl |-> "fail"]

\* RTOAggregator::generate_solution
RtoOnEvent(ev, text, total) ==
    CASE ev.type = "delta" ->
            [text |-> Append(text, ev.delta), total |-> total, ctl |-> "next"]
      [] ev.type = "completed" ->
            [text |-> text,
             total |-> IF ev.usage.some THEN UsageTotal(ev.usage) ELSE total,
             ctl |-> "next"]
      [] ev.type = "error" ->
            [text |-> text, total |-> total, ctl |-> "fail"]

\* MoaAggregator::generate_initial_completions, generate_critique,
\* generate_final_synthesis
MoaOnEvent(ev, text, total) ==
    CASE ev.type = "delta" ->
            [text |-> Append(text, ev.delta), total |-> total + 1, ctl |-> "next"]
      [] ev.type = "completed" ->
            [text |-> text, total |-> total, ctl |-> "break"]
      [] ev.type = "error" ->
            [text |-> text, total |-> total, ctl |-> "fail"]

OnEvent(s, ev, text, total) ==
    CASE s = "best_of_n" -> BestOfNOnEvent(ev, text, total)
      [] s = "self_consistency" -> SelfConsistencyOnEvent(ev, text, total)
      [] s = "rto" -> RtoOnEvent(ev, text, total)
      [] s = "moa" -> MoaOnEvent(ev, text, total)

\* the strategies whose loop adds to the counter of the run; the others
\* count in a counter local to the call
CountsInRun(s) == s \in {"best_of_n", "self_consistency"}

\* BestOfNConfig::new
BestOfNConfigNew(n) == [num_candidates |-> n, num_temperatures |-> Min(n, 5)]

\* SelfConsistencyConfig::new
SelfConsistencyConfigNew(n) == [num_paths |-> n, num_temperatures |-> Min(n, 5)]

Strategies == {"best_of_n", "self_consistency", "rto", "moa"}

Configs(s) ==
    CASE s = "best_of_n" -> {BestOfNConfigNew(n) : n \in 1..MaxCandidates}
      [] s = "self_consistency" ->
            {SelfConsistencyConfigNew(n) : n \in 1..MaxCandidates}
      [] s = "rto" -> {[validated |-> TRUE]}
      [] s = "moa" -> [num_completions : 1..MaxCompletions,
                       fallback_enabled : BOOLEAN]

FirstCall(s) ==
    CASE s = "best_of_n" -> "candidate"
      [] s = "self_consistency" -> "path"
      [] s = "rto" -> "c1"
      [] s = "moa" -> "initial"

InitialAcc(s) ==
    CASE s = "best_of_n" -> [solutions |-> <<>>]
      [] s = "self_consistency" -> [paths |-> <<>>]
      [] s = "rto" -> [initial_solution |-> <<>>, description |-> <<>>,
                       second_solution |-> <<>>, tokens_c1 |-> 0,
                       tokens_q2 |-> 0, tokens_c2 |-> 0,
                       solutions_differed |-> FALSE, synthesized |-> FALSE,
                       final_answer |-> <<>>]
      [] s = "moa" -> [completions |-> <<>>, succeeded |-> 0,
                       fallback_used |-> FALSE,
                       critique |-> <<>>, phase1_tokens |-> 0,
                       phase2_tokens |-> 0, phase3_tokens |-> 0,
                       final_answer |-> <<>>]

NoSnap == [seen |-> FALSE, text |-> <<>>, call_tokens |-> 0, total_tokens |-> 0]

StrategyStart ==
    /\ strat \in Strategies
    /\ cfg \in Configs(strat)
    /\ call = FirstCall(strat)
    /\ idx = 0
    /\ cpc = "open"
    /\ cpos = 0
    /\ response_text = <<>>
    /\ call_tokens = 0
    /\ total_tokens = 0
    /\ acc = InitialAcc(strat)
    /\ result = "running"
    /\ observed = 0
    /\ snap = NoSnap

\* no strategy runs
StrategyIdle ==
    /\ strat = "none"
    /\ cfg = [validated |-> TRUE]
    /\ call = "none"
    /\ idx = 0
    /\ cpc = "done"
    /\ cpos = 0
    /\ response_text = <<>>
    /\ call_tokens = 0
    /\ total_tokens = 0
    /\ acc = [solutions |-> <<>>]
    /\ result = "ok"
    /\ observed = 0
    /\ snap = NoSnap

\* let mut stream = client.stream(&prompt); let mut response_text = String::new();
\* generate_initial_completions keeps one counter over its calls, the other
\* functions start theirs at 0
OpenStream ==
    /\ result = "running"
    /\ cpc = "open"
    /\ cpos' = 0
    /\ response_text' = <<>>
    /\ call_tokens' = IF strat = "moa" /\ call = "initial" THEN call_tokens ELSE 0
    /\ cpc' = "pull"
    /\ snap' = NoSnap
    /\ UNCHANGED <<strat, cfg, call, idx, total_tokens, acc, result, observed>>
    /\ UNCHANGED nonStratVars

\* one turn of the loop: stream.next() returns Some(item)
PullEvent ==
    /\ result = "running"
    /\ cpc = "pull"
    /\ cpos < MaxEvents
    /\ \E ev \in StreamItems :
       LET r == OnEvent(strat, ev, response_text,
                        IF CountsInRun(strat) THEN total_tokens ELSE call_tokens)
           run_total == IF CountsInRun(strat) THEN r.total ELSE total_tokens
           call_total == IF CountsInRun(strat) THEN call_tokens ELSE r.total
           degrade == strat = "moa" /\ call = "initial" /\ cfg.fallback_enabled
       IN /\ response_text' = r.text
          /\ total_tokens' = run_total
          /\ call_tokens' = call_total
          /\ cpos' = cpos + 1
          /\ observed' = IF ev.type = "completed" /\ ev.usage.some
                         THEN observed + UsageTotal(ev.usage) ELSE observed
          /\ snap' = IF ev.type = "completed" /\ ~snap.seen
                     THEN [seen |-> TRUE, text |-> r.text,
                           call_tokens |-> call_total, total_tokens |-> run_total]
                     ELSE snap
          /\ IF r.ctl = "next"
             THEN UNCHANGED <<cpc, result, acc>>
             ELSE IF r.ctl = "break"
             THEN cpc' = "post" /\ UNCHANGED <<result, acc>>
             ELSE IF degrade
             THEN /\ cpc' = "post"
                  /\ acc' = [acc EXCEPT !.fallback_used = TRUE]
                  /\ result' = result
             ELSE /\ cpc' = "done"
                  /\ result' = "err"
                  /\ acc' = acc
    /\ UNCHANGED <<strat, cfg, call, idx>>
    /\ UNCHANGED nonStratVars

\* stream.next() returns None
EndOfStream ==
    /\ result = "running"
    /\ cpc = "pull"
    /\ cpc' = "post"
    /\ UNCHANGED <<strat, cfg, call, idx, cpos, response_text,
                   call_tokens, total_tokens, acc, result, observed, snap>>
    /\ UNCHANGED nonStratVars

(***************************************************************************)
(* RTO: comparison of the code of C1 and C2.                               *)
(***************************************************************************)
IsWordPiece(c) == c \in {"a", "7"}

IsSpacePiece(c) == c \in {"sp", "nl"}

\* str::trim on a text
RECURSIVE TrimTextLeft(_)
TrimTextLeft(t) ==
    IF t # <<>> /\ IsSpacePiece(Head(t)) THEN TrimTextLeft(Tail(t)) ELSE t

RECURSIVE TrimTextRight(_)
TrimTextRight(t) ==
    IF t # <<>> /\ IsSpacePiece(Last(t))
    THEN TrimTextRight(SubSeq(t, 1, Len(t) - 1)) ELSE t

TrimText(t) == TrimTextRight(TrimTextLeft(t))

\* length of the run of word pieces that starts at i: the optional tag
RECURSIVE WordRun(_, _)
WordRun(t, i) ==
    IF i <= Len(t) /\ IsWordPiece(t[i]) THEN 1 + WordRun(t, i + 1) ELSE 0

\* first index >= i of a fence, 0 when there is none
RECURSIVE FirstFence(_, _)
FirstFence(t, i) ==
    IF i > Len(t) THEN 0
    ELSE IF t[i] = "fence" THEN i
    ELSE FirstFence(t, i + 1)

\* leftmost match, at or after i, of the pattern of extract_code (a fence,
\* an optional tag, a newline, the shortest text up to the next fence): the
\* bounds of group 1
RECURSIVE FenceMatch(_, _)
FenceMatch(t, i) ==
    LET open == FirstFence(t, i) IN
    IF open = 0 THEN [found |-> FALSE, from |-> 0, to |-> 0]
    ELSE LET nl == open + 1 + WordRun(t, open + 1)
             close == FirstFence(t, nl + 1)
         IN IF nl <= Len(t) /\ t[nl] = "nl" /\ close # 0
            THEN [found |-> TRUE, from |-> nl + 1, to |-> close - 1]
            ELSE FenceMatch(t, open + 1)

\* RTOAggregator::extract_code
ExtractCode(t) ==
    LET m == FenceMatch(t, 1) IN
    IF m.found THEN TrimText(SubSeq(t, m.from, m.to)) ELSE t

\* split_whitespace().collect::<String>()
NormalizeWs(t) == SelectSeq(t, LAMBDA c : ~IsSpacePiece(c))

\* a comparison of the raw texts
SolutionsDifferRaw(sol1, sol2) == sol1 # sol2

\* RTOAggregator::solutions_differ
SolutionsDiffer(sol1, sol2) ==
    NormalizeWs(ExtractCode(sol1)) # NormalizeWs(ExtractCode(sol2))

(***************************************************************************)
(* What each strategy does with the text of a finished call.               *)
(***************************************************************************)
\* number of turns of config.temperatures.iter().take(config.num_candidates)
BestOfNTurns(c) == Min(c.num_temperatures, c.num_candidates)

\* run_best_of_n: the rest of the loop body and the code after the loop
BestOfNPost ==
    /\ strat = "best_of_n"
    /\ result = "running"
    /\ cpc = "post"
    /\ LET solution == [id |-> idx, text |-> response_text,
                        token_count |-> total_tokens]
       IN acc' = [acc EXCEPT !.solutions = Append(@, solution)]
    /\ IF idx + 1 < BestOfNTurns(cfg)
       THEN /\ idx' = idx + 1
            /\ cpc' = "open"
            /\ result' = result
       ELSE /\ idx' = idx
            /\ cpc' = "done"
            /\ result' = "ok"
    /\ snap' = NoSnap
    /\ UNCHANGED <<strat, cfg, call, cpos, response_text,
                   call_tokens, total_tokens, observed>>
    /\ UNCHANGED nonStratVars

\* number of turns of config.temperatures.iter().take(config.num_paths)
SelfConsistencyTurns(c) == Min(c.num_temperatures, c.num_paths)

\* run_self_consistency: the rest of the loop body and the code after the loop
SelfConsistencyPost ==
    /\ strat = "self_consistency"
    /\ result = "running"
    /\ cpc = "post"
    /\ LET path == [id |-> idx, reasoning |-> response_text] IN
       acc' = [acc EXCEPT !.paths = Append(@, path)]
    /\ IF idx + 1 < SelfConsistencyTurns(cfg)
       THEN /\ idx' = idx + 1
            /\ cpc' = "open"
            /\ result' = result
       ELSE /\ idx' = idx
            /\ cpc' = "done"
            /\ result' = "ok"
    /\ snap' = NoSnap
    /\ UNCHANGED <<strat, cfg, call, cpos, response_text,
                   call_tokens, total_tokens, observed>>
    /\ UNCHANGED nonStratVars

\* run_rto: what follows each generate_solution call
RtoPost ==
    /\ strat = "rto"
    /\ result = "running"
    /\ cpc = "post"
    /\ CASE call = "c1" ->
              /\ acc' = [acc EXCEPT !.initial_solution = response_text,
                                    !.tokens_c1 = call_tokens]
              /\ call' = "q2"
              /\ cpc' = "open"
              /\ UNCHANGED <<result, total_tokens>>
         [] call = "q2" ->
              /\ acc' = [acc EXCEPT !.description = response_text,
                                    !.tokens_q2 = call_tokens]
              /\ call' = "c2"
              /\ cpc' = "open"
              /\ UNCHANGED <<result, total_tokens>>
         [] call = "c2" ->
              LET differed == SolutionsDiffer(acc.initial_solution, response_text) IN
              IF differed
              THEN /\ acc' = [acc EXCEPT !.second_solution = response_text,
                                         !.tokens_c2 = call_tokens,
                                         !.solutions_differed = TRUE]
                   /\ call' = "c3"
                   /\ cpc' = "open"
                   /\ UNCHANGED <<result, total_tokens>>
              ELSE /\ acc' = [acc EXCEPT !.second_solution = response_text,
                                         !.tokens_c2 = call_tokens,
                                         !.solutions_differed = FALSE,
                                         !.final_answer = acc.initial_solution]
                   /\ total_tokens' = acc.tokens_c1 + acc.tokens_q2 + call_tokens + 0
                   /\ call' = call
                   /\ cpc' = "done"
                   /\ result' = "ok"
         [] call = "c3" ->
              /\ acc' = [acc EXCEPT !.synthesized = TRUE,
                                    !.final_answer = response_text]
              /\ total_tokens' = acc.tokens_c1 + acc.tokens_q2 + acc.tokens_c2
                                    + call_tokens
              /\ call' = call
              /\ cpc' = "done"
              /\ result' = "ok"
    /\ snap' = NoSnap
    /\ UNCHANGED <<strat, cfg, idx, cpos, response_text, call_tokens,
                   observed>>
    /\ UNCHANGED nonStratVars

\* "Pad with first completion if needed"
RECURSIVE PadCompletions(_, _)
PadCompletions(completions, n) ==
    IF Len(completions) < n /\ completions # <<>>
    THEN PadCompletions(Append(completions, completions[1]), n)
    ELSE completions

\* run_moa: what follows the loop of each call; succeeded counts the calls of
\* phase 1 that gave a completion, before the padding
MoaPost ==
    /\ strat = "moa"
    /\ result = "running"
    /\ cpc = "post"
    /\ CASE call = "initial" ->
              LET completions == IF response_text # <<>>
                                 THEN Append(acc.completions, response_text)
                                 ELSE acc.completions
                  padded == PadCompletions(completions, cfg.num_completions)
              IN IF idx + 1 < cfg.num_completions
                 THEN /\ acc' = [acc EXCEPT !.completions = completions,
                                            !.succeeded = Len(completions)]
                      /\ idx' = idx + 1
                      /\ cpc' = "open"
                      /\ UNCHANGED <<call, result, total_tokens>>
                 ELSE IF completions = <<>> \/ Len(padded) < 3
                 THEN \* "Failed to generate any completions in MOA phase 1",
                      \* "MOA requires at least 3 completions for critique"
                      /\ acc' = [acc EXCEPT !.completions = padded,
                                            !.succeeded = Len(completions)]
                      /\ cpc' = "done"
                      /\ result' = "err"
                      /\ UNCHANGED <<call, idx, total_tokens>>
                 ELSE /\ acc' = [acc EXCEPT !.completions = padded,
                                            !.succeeded = Len(completions),
                                            !.phase1_tokens = call_tokens]
                      /\ call' = "critique"
                      /\ cpc' = "open"
                      /\ UNCHANGED <<idx, result, total_tokens>>
         [] call = "critique" ->
              IF response_text = <<>>
              THEN /\ cpc' = "done"
                   /\ result' = "err"
                   /\ UNCHANGED <<acc, call, idx, total_tokens>>
              ELSE /\ acc' = [acc EXCEPT !.critique = response_text,
                                         !.phase2_tokens = call_tokens]
                   /\ call' = "synthesis"
                   /\ cpc' = "open"
                   /\ UNCHANGED <<idx, result, total_tokens>>
         [] call = "synthesis" ->
              IF response_text = <<>>
              THEN /\ cpc' = "done"
                   /\ result' = "err"
                   /\ UNCHANGED <<acc, call, idx, total_tokens>>
              ELSE /\ acc' = [acc EXCEPT !.final_answer = response_text,
                                         !.phase3_tokens = call_tokens]
                   /\ total_tokens' = acc.phase1_tokens + acc.phase2_tokens
                                        + call_tokens
                   /\ cpc' = "done"
                   /\ result' = "ok"
                   /\ UNCHANGED <<call, idx>>
    /\ snap' = NoSnap
    /\ UNCHANGED <<strat, cfg, cpos, response_text, call_tokens,
                   observed>>
    /\ UNCHANGED nonStratVars

StrategyNext ==
    \/ OpenStream
    \/ PullEvent
    \/ EndOfStream
    \/ BestOfNPost
    \/ SelfConsistencyPost
    \/ RtoPost
    \/ MoaPost

(***************************************************************************)
(* The Solution record (crate::types).  Solution::new and the two          *)
(* verification methods follow the data model of the specification; the    *)
(* record keeps the fields the coordinator, the verifier and the workspace *)
(* read.  An answer is a pair <<k, d>>: the answer of agent k under d      *)
(* "Improved: " prefixes.  A verification score is an integer in units of  *)
(* 1/(10 * ScoreScale), which keeps the halving of the running mean exact. *)
(***************************************************************************)
MaxVerifications == 5

ScoreScale == 2^MaxVerifications

ConsensusThreshold == 2

VerifierScores == {7, 9}

NewSolution(id, agent_id, answer, token_count) ==
    [id |-> id, agent_id |-> agent_id, answer |-> answer,
     token_count |-> token_count, verification_score |-> 0,
     verification_passes |-> 0, verification_failures |-> 0,
     phase |-> "Initial", is_verified |-> FALSE]

\* score is in tenths
AddVerificationPass(s, score) ==
    [s EXCEPT !.verification_passes = @ + 1,
              !.verification_score = (@ + score * ScoreScale) \div 2,
              !.is_verified = /\ s.verification_passes + 1 >= ConsensusThreshold
                              /\ s.verification_failures = 0]

AddVerificationFailure(s) ==
    [s EXCEPT !.verification_failures = @ + 1,
              !.is_verified = FALSE]

MeetsConsensusIgnoringFailures(solution, consensus_threshold) ==
    solution.verification_passes >= consensus_threshold

MeetsConsensus(solution, consensus_threshold) ==
    /\ solution.verification_passes >= consensus_threshold
    /\ solution.verification_failures = 0

SolutionStart ==
    sol = NewSolution(1, <<"agent", 1>>, <<1, 0>>, 0)

SolutionIdle ==
    sol = NewSolution(0, <<"agent", 0>>, <<0, 0>>, 0)

SolAddVerificationPass ==
    /\ sol.verification_passes + sol.verification_failures < MaxVerifications
    /\ \E score \in VerifierScores : sol' = AddVerificationPass(sol, score)
    /\ UNCHANGED nonSolVars

SolAddVerificationFailure ==
    /\ sol.verification_passes + sol.verification_failures < MaxVerifications
    /\ sol' = AddVerificationFailure(sol)
    /\ UNCHANGED nonSolVars

SolutionNext ==
    \/ SolAddVerificationPass
    \/ SolAddVerificationFailure

(***************************************************************************)
(* The Workspace (crates/mars/src/workspace.rs): a Vec<Solution> behind a  *)
(* tokio RwLock.  The operations on the Vec are operators on sequences;    *)
(* the tasks below run them under the lock, one step at a time.            *)
(***************************************************************************)
AddSolution(ws, solution) == Append(ws, solution)

GetAllSolutions(ws) == ws

\* solutions.iter().position(|s| s.id == id); 0 stands for None
Position(ws, id) ==
    IF \E i \in 1..Len(ws) : ws[i].id = id
    THEN CHOOSE i \in 1..Len(ws) :
            /\ ws[i].id = id
            /\ \A k \in 1..(i - 1) : ws[k].id # id
    ELSE 0

UpdateOrInsert(ws, updated_solution) ==
    LET pos == Position(ws, updated_solution.id)
    IN IF pos # 0
       THEN [ws |-> [ws EXCEPT ![pos] = updated_solution], ok |-> TRUE]
       ELSE [ws |-> Append(ws, updated_solution), ok |-> FALSE]

UpdateSolution(ws, updated_solution) ==
    LET pos == Position(ws, updated_solution.id)
    IN IF pos # 0
       THEN [ws |-> [ws EXCEPT ![pos] = updated_solution], ok |-> TRUE]
       ELSE [ws |-> ws, ok |-> FALSE]

NumTasks == 2

MaxSolutions == 2

WsIds == {1, 2}

Tasks == 1..NumTasks

BaseSolution(id) == NewSolution(id, <<"agent", id>>, <<id, 0>>, 0)

\* the Solutions the tasks pass to add_solution and update_solution
WsInputs ==
    {BaseSolution(id) : id \in WsIds}
        \cup {AddVerificationPass(BaseSolution(id), 9) : id \in WsIds}

\* RwLock::write resolves when no guard is held
WriteFreeIgnoringWriter(l) == l.readers = {}

WriteFree(l) == l.writer = 0 /\ l.readers = {}

\* RwLock::read resolves when no write guard is held
ReadFree(l) == l.writer = 0

NoRet == [ok |-> TRUE, all |-> <<>>]

IdleTask == [pc |-> "idle", op |-> "none", arg |-> BaseSolution(1),
             pos |-> 0, ret |-> NoRet, expect |-> NoRet]

\* Workspace::new, no task in an operation
WorkspaceNew ==
    /\ solutions = <<>>
    /\ rw = [writer |-> 0, readers |-> {}]
    /\ task = [t \in Tasks |-> IdleTask]
    /\ lin = <<>>

\* a task calls add_solution or update_solution: self.solutions.write().await
\* resolves; the write takes its place in the order of the operations here
AcquireWrite(t) ==
    /\ task[t].pc = "idle"
    /\ WriteFree(rw)
    /\ rw' = [rw EXCEPT !.writer = t]
    /\ \E op \in {"add", "update"}, arg \in WsInputs :
          /\ op = "add" => Len(lin) < MaxSolutions
          /\ LET after == IF op = "add"
                          THEN [ws |-> AddSolution(lin, arg), ok |-> TRUE]
                          ELSE UpdateSolution(lin, arg)
             IN /\ lin' = after.ws
                /\ task' = [task EXCEPT ![t] =
                              [IdleTask EXCEPT !.pc = "locked", !.op = op,
                                               !.arg = arg,
                                               !.expect = [ok |-> after.ok,
                                                           all |-> <<>>]]]
    /\ UNCHANGED solutions
    /\ UNCHANGED nonWsVars

\* a task calls get_all_solutions: self.solutions.read().await resolves
AcquireRead(t) ==
    /\ task[t].pc = "idle"
    /\ ReadFree(rw)
    /\ rw' = [rw EXCEPT !.readers = @ \cup {t}]
    /\ task' = [task EXCEPT ![t] =
                   [IdleTask EXCEPT !.pc = "locked", !.op = "get",
                                    !.expect = [ok |-> TRUE,
                                                all |-> GetAllSolutions(lin)]]]
    /\ UNCHANGED <<solutions, lin>>
    /\ UNCHANGED nonWsVars

\* under the write guard: push reads the length of the Vec
ReadLen(t) ==
    /\ task[t].pc = "locked"
    /\ task[t].op = "add"
    /\ task' = [task EXCEPT ![t].pc = "located", ![t].pos = Len(solutions)]
    /\ UNCHANGED <<solutions, rw, lin>>
    /\ UNCHANGED nonWsVars

\* solutions.push(solution): the element goes behind the length read, the
\* guard drops at the end of the function
Push(t) ==
    /\ task[t].pc = "located"
    /\ task[t].op = "add"
    /\ solutions' = AddSolution(SubSeq(solutions, 1, task[t].pos), task[t].arg)
    /\ rw' = [rw EXCEPT !.writer = IF @ = t THEN 0 ELSE @]
    /\ task' = [task EXCEPT ![t].pc = "ret"]
    /\ UNCHANGED lin
    /\ UNCHANGED nonWsVars

\* solutions[pos] = updated_solution, or the CoordinatorError
Replace(t) ==
    /\ task[t].pc = "locked"
    /\ task[t].op = "update"
    /\ LET after == UpdateSolution(solutions, task[t].arg)
       IN /\ solutions' = after.ws
          /\ task' = [task EXCEPT ![t].pc = "ret",
                                  ![t].ret = [ok |-> after.ok, all |-> <<>>]]
    /\ rw' = [rw EXCEPT !.writer = IF @ = t THEN 0 ELSE @]
    /\ UNCHANGED lin
    /\ UNCHANGED nonWsVars

\* solutions.clone(), the read guard drops
Clone(t) ==
    /\ task[t].pc = "locked"
    /\ task[t].op = "get"
    /\ task' = [task EXCEPT ![t].pc = "ret",
                            ![t].ret = [ok |-> TRUE, all |-> GetAllSolutions(solutions)]]
    /\ rw' = [rw EXCEPT !.readers = @ \ {t}]
    /\ UNCHANGED <<solutions, lin>>
    /\ UNCHANGED nonWsVars

\* the operation returns to its caller
Return(t) ==
    /\ task[t].pc = "ret"
    /\ task' = [task EXCEPT ![t] = IdleTask]
    /\ UNCHANGED <<solutions, rw, lin>>
    /\ UNCHANGED nonWsVars

WorkspaceNext ==
    \/ \E t \in Tasks : AcquireWrite(t)
    \/ \E t \in Tasks : AcquireRead(t)
    \/ \E t \in Tasks : ReadLen(t)
    \/ \E t \in Tasks : Push(t)
    \/ \E t \in Tasks : Replace(t)
    \/ \E t \in Tasks : Clone(t)
    \/ \E t \in Tasks : Return(t)

(***************************************************************************)
(* MarsCoordinator (crates/mars/src/core/coordinator.rs).  run drives the  *)
(* phases one after the other on a single task; every action below is one  *)
(* tx.send(..).await together with the code that follows it up to the next *)
(* send.  The channel is created by run with its receiver bound to _rx,    *)
(* which lives until run returns and never receives.                       *)
(***************************************************************************)
ChannelCapacity == 100

MaxAgents == 3

MaxIterations == 5

DefaultPopulationSize == 6

DefaultSelectionSize == 3

DefaultAggregationLoops == 3

NumVerifiers == 2

NumStrategies == 2

Phases == {"exploration", "aggregation", "strategy_network", "verification",
           "improvement", "synthesis"}

\* the configurations of a run: the fields of MarsConfig are public, so the
\* builders' results and any literal (one with no agents too) reach new()
MarsConfigs ==
    [num_agents : 0..MaxAgents,
     num_temperatures : 1..MaxAgents,
     consensus_threshold : {ConsensusThreshold},
     enable_aggregation : BOOLEAN,
     enable_strategy_network : BOOLEAN,
     max_iterations : 1..MaxIterations,
     aggregation_population_size : {DefaultPopulationSize},
     aggregation_selection_size : {DefaultSelectionSize},
     aggregation_loops : {DefaultAggregationLoops}]

DefaultConfig ==
    [num_agents |-> 3, num_temperatures |-> 3,
     consensus_threshold |-> ConsensusThreshold,
     enable_aggregation |-> FALSE, enable_strategy_network |-> FALSE,
     max_iterations |-> 5,
     aggregation_population_size |-> DefaultPopulationSize,
     aggregation_selection_size |-> DefaultSelectionSize,
     aggregation_loops |-> DefaultAggregationLoops]

RECURSIVE SumTokens(_)
SumTokens(s) ==
    IF s = <<>> THEN 0 ELSE Head(s).token_count + SumTokens(Tail(s))

AnswerCount(s, answer) == Cardinality({i \in 1..Len(s) : s[i].answer = answer})

Answers(s) == {s[i].answer : i \in 1..Len(s)}

\* solutions.iter().find(|s| s.answer == answer)
FirstWithAnswer(s, answer) ==
    s[CHOOSE i \in 1..Len(s) :
        /\ s[i].answer = answer
        /\ \A k \in 1..(i - 1) : s[k].answer # answer]

(***************************************************************************)
(* Aggregator::aggregate_rsa.  choose_multiple picks the selection at      *)
(* random and in random order; max_by_key runs over a HashMap, so any      *)
(* answer of the highest count can come out.  The operator yields every    *)
(* list of aggregated Solutions a call can return.                         *)
(***************************************************************************)
Truncate(s, n) == IF Len(s) > n THEN SubSeq(s, 1, n) ELSE s

\* the selections select_diverse_solutions can return, as sets of indices
SelectDiverseSolutions(population, num_to_select) ==
    {S \in SUBSET (1..Len(population)) :
        Cardinality(S) = Min(num_to_select, Len(population))}

\* the answers select_best_answer can return for the selection S
SelectBestAnswer(population, S) ==
    LET count(a) == Cardinality({i \in S : population[i].answer = a})
    IN {population[i].answer : i \in
          {i \in S : \A k \in S : count(population[k].answer)
                                     <= count(population[i].answer)}}

\* the Solutions synthesize_solution can return for the selection S
SynthesizeSolution(population, S, iteration, id) ==
    {[NewSolution(id, <<"aggregator", iteration>>, answer,
                  population[base].token_count)
         EXCEPT !.phase = "Aggregated"] :
        base \in S, answer \in SelectBestAnswer(population, S)}

RECURSIVE RsaLoops(_, _, _, _, _)
RsaLoops(population, selection_size, loop_idx, num_loops, id) ==
    IF loop_idx >= num_loops THEN {<<>>}
    ELSE LET sels == SelectDiverseSolutions(population, selection_size)
             firsts == UNION {SynthesizeSolution(population, S, loop_idx, id) :
                                 S \in {S \in sels : S # {}}}
         IN IF firsts = {}
            THEN RsaLoops(population, selection_size, loop_idx + 1, num_loops, id)
            ELSE UNION {{<<a>> \o rest :
                           rest \in RsaLoops(Append(population, a), selection_size,
                                             loop_idx + 1, num_loops, id + 1)} :
                        a \in firsts}

AggregateRsa(sols, population_size, selection_size, num_loops, id) ==
    IF sols = <<>> THEN {<<>>}
    ELSE RsaLoops(Truncate(sols, population_size), selection_size, 0,
                  num_loops, id)

(***************************************************************************)
(* Verifier (mars/src/verifier.rs).                                        *)
(***************************************************************************)
\* the placeholder verdict: always correct, score 0.9
VerifySolution(solution) == [is_correct |-> TRUE, score |-> 9]

VerifiedIndices(s) == {i \in 1..Len(s) : s[i].is_verified}

\* max_by keeps the last of the maximal elements; {} stands for None
FindBestVerified(s) ==
    LET V == VerifiedIndices(s)
        top == {i \in V : \A k \in V :
                   s[k].verification_score <= s[i].verification_score}
    IN {s[i] : i \in {i \in top : \A k \in top : k <= i}}

(***************************************************************************)
(* The selection rules of phase_synthesis.                                 *)
(***************************************************************************)
\* the Solutions select_by_majority_voting can return: the HashMap of the
\* answer counts is walked in an arbitrary order; {} stands for None
SelectByMajorityVoting(s) ==
    IF Len(s) < 2 THEN {s[i] : i \in {i \in 1..Len(s) : i = 1}}
    ELSE {FirstWithAnswer(s, a) : a \in {a \in Answers(s) : AnswerCount(s, a) >= 2}}

\* the stable sort by descending score puts the first of the top scores
\* in front; {} stands for Err(NoSolutions)
SynthesizeFinalAnswer(s, id) ==
    IF s = <<>> THEN {}
    ELSE LET top == CHOOSE i \in 1..Len(s) :
                       /\ \A k \in 1..Len(s) :
                             s[k].verification_score <= s[i].verification_score
                       /\ \A k \in 1..(i - 1) :
                             s[k].verification_score < s[i].verification_score
         IN {NewSolution(id, <<"synthesizer", 0>>, s[top].answer, SumTokens(s))}

SynthesisOutcomesBestVerifiedFirst(all_solutions, id) ==
    LET majority == SelectByMajorityVoting(all_solutions)
        best == FindBestVerified(all_solutions)
    IN IF best # {}
       THEN {[solution |-> s, method |-> "BestVerified"] : s \in best}
       ELSE IF majority # {}
       THEN {[solution |-> s, method |-> "MajorityVoting"] : s \in majority}
       ELSE {[solution |-> s, method |-> "Synthesized"] :
                s \in SynthesizeFinalAnswer(all_solutions, id)}

\* the if-let chain of phase_synthesis: the final Solution and the
\* SelectionMethod handed to create_output; {} stands for the error return
SynthesisOutcomes(all_solutions, id) ==
    LET majority == SelectByMajorityVoting(all_solutions)
        best == FindBestVerified(all_solutions)
    IN IF majority # {}
       THEN {[solution |-> s, method |-> "MajorityVoting"] : s \in majority}
       ELSE IF best # {}
       THEN {[solution |-> s, method |-> "BestVerified"] : s \in best}
       ELSE {[solution |-> s, method |-> "Synthesized"] :
                s \in SynthesizeFinalAnswer(all_solutions, id)}

CreateOutput(all_solutions, final_solution, selection_method) ==
    [answer |-> final_solution.answer,
     all_solutions |-> all_solutions,
     final_solution_id |-> final_solution.id,
     selection_method |-> selection_method,
     iterations |-> 0,
     total_tokens |-> 0]

(***************************************************************************)
(* MarsCoordinator::run and its phases.                                    *)
(***************************************************************************)
NoChosen == [solution |-> BaseSolution(0), method |-> "none"]

NoOutput == CreateOutput(<<>>, BaseSolution(0), "none")

NewLog == [p \in Phases |-> [started |-> FALSE, finished |-> FALSE, adds |-> 0]]

NoLoop == [i |-> 1, j |-> 1, iteration |-> 0, agents |-> <<>>]

\* tx.send(..).await resolves when the channel has room
CanSend == Len(events) < ChannelCapacity

ThenIgnoringOutcome(phase, c, iteration, any_improved) ==
    CASE phase = "exploration" ->
            IF c.enable_aggregation THEN "aggregation"
            ELSE IF c.enable_strategy_network THEN "strategy_network"
            ELSE "verification"
      [] phase = "aggregation" ->
            IF c.enable_strategy_network THEN "strategy_network"
            ELSE "verification"
      [] phase = "strategy_network" -> "verification"
      [] phase = "verification" ->
            IF 0 < c.max_iterations THEN "improvement" ELSE "synthesis"
      [] phase = "improvement" ->
            IF iteration + 1 < c.max_iterations
            THEN "improvement" ELSE "synthesis"
      [] OTHER -> "done"

ThenNetworkBeforeAggregation(phase, c, iteration, any_improved) ==
    CASE phase = "exploration" ->
            IF c.enable_strategy_network THEN "strategy_network"
            ELSE IF c.enable_aggregation THEN "aggregation"
            ELSE "verification"
      [] phase = "strategy_network" ->
            IF c.enable_aggregation THEN "aggregation" ELSE "verification"
      [] phase = "aggregation" -> "verification"
      [] phase = "verification" ->
            IF 0 < c.max_iterations THEN "improvement" ELSE "synthesis"
      [] phase = "improvement" ->
            IF any_improved /\ iteration + 1 < c.max_iterations
            THEN "improvement" ELSE "synthesis"
      [] OTHER -> "done"

\* the body of run: the phase that follows the given one
Then(phase, c, iteration, any_improved) ==
    CASE phase = "exploration" ->
            IF c.enable_aggregation THEN "aggregation"
            ELSE IF c.enable_strategy_network THEN "strategy_network"
            ELSE "verification"
      [] phase = "aggregation" ->
            IF c.enable_strategy_network THEN "strategy_network"
            ELSE "verification"
      [] phase = "strategy_network" -> "verification"
      [] phase = "verification" ->
            IF 0 < c.max_iterations THEN "improvement" ELSE "synthesis"
      [] phase = "improvement" ->
            IF any_improved /\ iteration + 1 < c.max_iterations
            THEN "improvement" ELSE "synthesis"
      [] OTHER -> "done"

\* a phase function returns to run, which goes on with the next phase
Leave(phase, any_improved, log) ==
    LET next == Then(phase, mcfg, mi.iteration, any_improved)
    IN /\ mphase' = next
       /\ mstep' = "start"
       /\ mi' = [NoLoop EXCEPT !.iteration =
                    IF next = phase THEN mi.iteration + 1 ELSE 0]
       /\ phaseLog' = IF next = phase THEN log
                      ELSE [log EXCEPT ![phase].finished = TRUE]

Started(phase) == [phaseLog EXCEPT ![phase].started = TRUE]

Added(phase) == [phaseLog EXCEPT ![phase].adds = @ + 1]

\* MarsCoordinator::new followed by the call of run
MarsStart ==
    /\ mcfg \in MarsConfigs
    /\ mphase = "exploration"
    /\ mstep = "start"
    /\ mi = NoLoop
    /\ msnap = <<>>
    /\ pending = <<>>
    /\ events = <<>>
    /\ nextId = 0
    /\ network = {}
    /\ chosen = NoChosen
    /\ output = NoOutput
    /\ phaseLog = NewLog

MarsIdle ==
    /\ mcfg = DefaultConfig
    /\ mphase = "done"
    /\ mstep = "start"
    /\ mi = NoLoop
    /\ msnap = <<>>
    /\ pending = <<>>
    /\ events = <<>>
    /\ nextId = 0
    /\ network = {}
    /\ chosen = NoChosen
    /\ output = NoOutput
    /\ phaseLog = NewLog

\* phase_exploration: the start event, then the agents; the slice of the
\* temperatures panics when there are fewer temperatures than agents
ExplorationStarted ==
    /\ mphase = "exploration" /\ mstep = "start"
    /\ CanSend
    /\ events' = Append(events, <<"ExplorationStarted", mcfg.num_agents>>)
    /\ IF mcfg.num_agents > mcfg.num_temperatures
       THEN /\ mphase' = "panicked"
            /\ phaseLog' = Started("exploration")
            /\ UNCHANGED <<mstep, mi, nextId>>
       ELSE /\ nextId' = nextId + mcfg.num_agents
            /\ IF mcfg.num_agents = 0
               THEN Leave("exploration", FALSE, Started("exploration"))
               ELSE /\ mstep' = "item"
                    /\ mi' = [NoLoop EXCEPT !.agents =
                                 [k \in 1..mcfg.num_agents |-> nextId + k]]
                    /\ phaseLog' = Started("exploration")
                    /\ UNCHANGED mphase
    /\ UNCHANGED <<mcfg, msnap, pending, network, chosen, output, solutions>>
    /\ UNCHANGED nonMarsVars

\* one round of the loop over the agents
SolutionGenerated ==
    /\ mphase = "exploration" /\ mstep = "item"
    /\ CanSend
    /\ LET solution == NewSolution(nextId + 1, <<"agent", mi.agents[mi.i]>>,
                                   <<mi.i, 0>>, 0)
       IN /\ nextId' = nextId + 1
          /\ events' = Append(events, <<"SolutionGenerated", solution.id>>)
          /\ solutions' = AddSolution(solutions, solution)
    /\ IF mi.i < Len(mi.agents)
       THEN /\ mi' = [mi EXCEPT !.i = @ + 1]
            /\ phaseLog' = Added("exploration")
            /\ UNCHANGED <<mphase, mstep>>
       ELSE Leave("exploration", FALSE, Added("exploration"))
    /\ UNCHANGED <<mcfg, msnap, pending, network, chosen, output>>
    /\ UNCHANGED nonMarsVars

\* phase_aggregation: the start event, the snapshot and aggregate_rsa
AggregationStarted ==
    /\ mphase = "aggregation" /\ mstep = "start"
    /\ CanSend
    /\ events' = Append(events, <<"AggregationStarted", 0>>)
    /\ msnap' = GetAllSolutions(solutions)
    /\ \E aggregated \in AggregateRsa(msnap', mcfg.aggregation_population_size,
                                      mcfg.aggregation_selection_size,
                                      mcfg.aggregation_loops, nextId + 1) :
          /\ pending' = aggregated
          /\ nextId' = nextId + Len(aggregated)
          /\ IF aggregated = <<>>
             THEN Leave("aggregation", FALSE, Started("aggregation"))
             ELSE /\ mstep' = "item"
                  /\ mi' = NoLoop
                  /\ phaseLog' = Started("aggregation")
                  /\ UNCHANGED mphase
    /\ UNCHANGED <<mcfg, network, chosen, output, solutions>>
    /\ UNCHANGED nonMarsVars

\* one round of the loop over the aggregated Solutions
SolutionsAggregated ==
    /\ mphase = "aggregation" /\ mstep = "item"
    /\ CanSend
    /\ events' = Append(events, <<"SolutionsAggregated", pending[mi.i].id>>)
    /\ solutions' = AddSolution(solutions, pending[mi.i])
    /\ IF mi.i < Len(pending)
       THEN /\ mi' = [mi EXCEPT !.i = @ + 1]
            /\ phaseLog' = Added("aggregation")
            /\ UNCHANGED <<mphase, mstep>>
       ELSE Leave("aggregation", FALSE, Added("aggregation"))
    /\ UNCHANGED <<mcfg, msnap, pending, nextId, network, chosen, output>>
    /\ UNCHANGED nonMarsVars

\* phase_strategy_network: the start event and the snapshot
StrategyNetworkStarted ==
    /\ mphase = "strategy_network" /\ mstep = "start"
    /\ CanSend
    /\ events' = Append(events, <<"StrategyNetworkStarted", 0>>)
    /\ msnap' = GetAllSolutions(solutions)
    /\ IF msnap' = <<>>
       THEN Leave("strategy_network", FALSE, Started("strategy_network"))
       ELSE /\ mstep' = "register"
            /\ mi' = NoLoop
            /\ phaseLog' = Started("strategy_network")
            /\ UNCHANGED mphase
    /\ UNCHANGED <<mcfg, pending, nextId, network, chosen, output, solutions>>
    /\ UNCHANGED nonMarsVars

\* strategy_network.register_strategy, ahead of the send of its event
RegisterStrategy ==
    /\ mphase = "strategy_network" /\ mstep = "register"
    /\ network' = network \cup
                    {[id |-> nextId + 1, discovered_by |-> msnap[mi.i].agent_id]}
    /\ nextId' = nextId + 1
    /\ mstep' = "item"
    /\ UNCHANGED <<mcfg, mphase, mi, msnap, pending, events, chosen, output,
                   phaseLog, solutions>>
    /\ UNCHANGED nonMarsVars

\* the event of the strategy just registered, and the loop control
StrategyExtracted ==
    /\ mphase = "strategy_network" /\ mstep = "item"
    /\ CanSend
    /\ events' = Append(events, <<"StrategyExtracted", nextId>>)
    /\ IF mi.j < NumStrategies
       THEN /\ mi' = [mi EXCEPT !.j = @ + 1]
            /\ mstep' = "register"
            /\ UNCHANGED <<mphase, phaseLog>>
       ELSE IF mi.i < Len(msnap)
       THEN /\ mi' = [mi EXCEPT !.i = @ + 1, !.j = 1]
            /\ mstep' = "register"
            /\ UNCHANGED <<mphase, phaseLog>>
       ELSE Leave("strategy_network", FALSE, phaseLog)
    /\ UNCHANGED <<mcfg, msnap, pending, nextId, network, chosen, output,
                   solutions>>
    /\ UNCHANGED nonMarsVars

\* phase_verification: the start event and the snapshot
VerificationStarted ==
    /\ mphase = "verification" /\ mstep = "start"
    /\ CanSend
    /\ events' = Append(events, <<"VerificationStarted", 0>>)
    /\ msnap' = GetAllSolutions(solutions)
    /\ IF msnap' = <<>>
       THEN Leave("verification", FALSE, Started("verification"))
       ELSE /\ mstep' = "item"
            /\ mi' = NoLoop
            /\ phaseLog' = Started("verification")
            /\ UNCHANGED mphase
    /\ UNCHANGED <<mcfg, pending, nextId, network, chosen, output, solutions>>
    /\ UNCHANGED nonMarsVars

\* one verifier on one Solution of the snapshot: the verdict goes onto a
\* clone of the snapshot's Solution, which replaces the stored one
SolutionVerified ==
    /\ mphase = "verification" /\ mstep = "item"
    /\ CanSend
    /\ LET solution == msnap[mi.i]
           verification_result == VerifySolution(solution)
           updated_solution ==
               IF verification_result.is_correct
               THEN AddVerificationPass(solution, verification_result.score)
               ELSE AddVerificationFailure(solution)
       IN /\ events' = Append(events, <<"SolutionVerified", solution.id>>)
          /\ solutions' = UpdateSolution(solutions, updated_solution).ws
    /\ IF mi.j < NumVerifiers
       THEN /\ mi' = [mi EXCEPT !.j = @ + 1]
            /\ UNCHANGED <<mphase, mstep, phaseLog>>
       ELSE IF mi.i < Len(msnap)
       THEN /\ mi' = [mi EXCEPT !.i = @ + 1, !.j = 1]
            /\ UNCHANGED <<mphase, mstep, phaseLog>>
       ELSE Leave("verification", FALSE, phaseLog)
    /\ UNCHANGED <<mcfg, msnap, pending, nextId, network, chosen, output>>
    /\ UNCHANGED nonMarsVars

NeedsImprovement(s) == ~s.is_verified /\ s.verification_failures < 2

Unverified(s) == SelectSeq(s, NeedsImprovement)

\* phase_improvement: the start event, the snapshot and the candidates
ImprovementStarted ==
    /\ mphase = "improvement" /\ mstep = "start"
    /\ CanSend
    /\ events' = Append(events, <<"ImprovementStarted", mi.iteration>>)
    /\ msnap' = GetAllSolutions(solutions)
    /\ IF Unverified(msnap') = <<>>
       THEN Leave("improvement", FALSE, Started("improvement"))
       ELSE /\ mstep' = "item"
            /\ mi' = [mi EXCEPT !.i = 1]
            /\ phaseLog' = Started("improvement")
            /\ UNCHANGED mphase
    /\ UNCHANGED <<mcfg, pending, nextId, network, chosen, output, solutions>>
    /\ UNCHANGED nonMarsVars

\* one round of the loop over the candidates
SolutionImproved ==
    /\ mphase = "improvement" /\ mstep = "item"
    /\ CanSend
    /\ LET solution == Unverified(msnap)[mi.i]
           improved == [solution EXCEPT !.id = nextId + 1,
                                        !.phase = "Improved",
                                        !.answer = <<@[1], @[2] + 1>>]
       IN /\ nextId' = nextId + 1
          /\ events' = Append(events, <<"SolutionImproved", improved.id>>)
          /\ solutions' = AddSolution(solutions, improved)
    /\ IF mi.i < Len(Unverified(msnap))
       THEN /\ mi' = [mi EXCEPT !.i = @ + 1]
            /\ phaseLog' = Added("improvement")
            /\ UNCHANGED <<mphase, mstep>>
       ELSE Leave("improvement", TRUE, Added("improvement"))
    /\ UNCHANGED <<mcfg, msnap, pending, network, chosen, output>>
    /\ UNCHANGED nonMarsVars

\* phase_synthesis: the start event, the snapshot and the selection
SynthesisStarted ==
    /\ mphase = "synthesis" /\ mstep = "start"
    /\ CanSend
    /\ events' = Append(events, <<"SynthesisStarted", 0>>)
    /\ msnap' = GetAllSolutions(solutions)
    /\ LET outcomes == SynthesisOutcomes(msnap', nextId + 1)
       IN IF outcomes = {}
          THEN /\ mphase' = "failed"
               /\ UNCHANGED <<mstep, chosen, nextId>>
          ELSE \E o \in outcomes :
                  /\ chosen' = o
                  /\ nextId' = IF o.method = "Synthesized"
                               THEN nextId + 1 ELSE nextId
                  /\ mstep' = "item"
                  /\ UNCHANGED mphase
    /\ phaseLog' = Started("synthesis")
    /\ UNCHANGED <<mcfg, mi, pending, network, output, solutions>>
    /\ UNCHANGED nonMarsVars

\* the answer event, create_output and the return of run
AnswerSynthesized ==
    /\ mphase = "synthesis" /\ mstep = "item"
    /\ CanSend
    /\ events' = Append(events, <<"AnswerSynthesized", chosen.solution.answer>>)
    /\ output' = CreateOutput(msnap, chosen.solution, chosen.method)
    /\ Leave("synthesis", FALSE, phaseLog)
    /\ UNCHANGED <<mcfg, msnap, pending, nextId, network, chosen, solutions>>
    /\ UNCHANGED nonMarsVars

MarsNext ==
    \/ ExplorationStarted
    \/ SolutionGenerated
    \/ AggregationStarted
    \/ SolutionsAggregated
    \/ StrategyNetworkStarted
    \/ RegisterStrategy
    \/ StrategyExtracted
    \/ VerificationStarted
    \/ SolutionVerified
    \/ ImprovementStarted
    \/ SolutionImproved
    \/ SynthesisStarted
    \/ AnswerSynthesized

(***************************************************************************)
(* phase_synthesis on its own: the workspaces it can be handed.            *)
(***************************************************************************)
MaxStored == 4

StoredAnswers == {<<1, 0>>, <<2, 0>>}

\* the verification histories a stored Solution can have
Histories == {<<>>, <<9, 9>>, <<7, 7>>, <<9, 0>>}

RECURSIVE Verified(_, _)
Verified(s, history) ==
    IF history = <<>> THEN s
    ELSE Verified(IF Head(history) = 0 THEN AddVerificationFailure(s)
                  ELSE AddVerificationPass(s, Head(history)),
                  Tail(history))

StoredWorkspaces ==
    UNION {{[i \in 1..n |->
               Verified(NewSolution(i, <<"agent", i>>, a[i], i), h[i])] :
              a \in [1..n -> StoredAnswers], h \in [1..n -> Histories]} :
           n \in 0..MaxStored}

SynthesisStart ==
    /\ solutions \in StoredWorkspaces
    /\ rw = [writer |-> 0, readers |-> {}]
    /\ task = [t \in Tasks |-> IdleTask]
    /\ lin = <<>>
    /\ mcfg = DefaultConfig
    /\ mphase = "synthesis"
    /\ mstep = "start"
    /\ mi = NoLoop
    /\ msnap = <<>>
    /\ pending = <<>>
    /\ events = <<>>
    /\ nextId = Len(solutions)
    /\ network = {}
    /\ chosen = NoChosen
    /\ output = NoOutput
    /\ phaseLog = NewLog

SynthesisNext ==
    \/ SynthesisStarted
    \/ AnswerSynthesized

(***************************************************************************)
(* RSA (crates/mars/src/strategies/rsa/mod.rs).  A Solution of an RSA call *)
(* keeps its id, its answer, the length of its reasoning, its score and    *)
(* its token count.  A score is an integer in units of 1/RsaScale, which   *)
(* keeps the averages of refine_solutions exact.                           *)
(***************************************************************************)
MaxInput == 3

MaxPopulation == 2

MaxRsaIterations == 2

TournamentSize == 3

BucketWidth == 500

HeaderLen == 40

ApproachLen == 14

RECURSIVE Fact(_)
Fact(n) == IF n <= 1 THEN 1 ELSE n * Fact(n - 1)

RsaScale == 20 * Fact(MaxPopulation)^MaxRsaIterations

ScoreOfTenths(t) == t * (RsaScale \div 10)

RECURSIVE SumOver(_, _)
SumOver(s, field) ==
    IF s = <<>> THEN 0 ELSE Head(s)[field] + SumOver(Tail(s), field)

\* the order a stable sort by descending key leaves the indices in
StableOrder(keys) ==
    LET rank(k) == 1 + Cardinality({j \in 1..Len(keys) :
                        \/ keys[j] > keys[k]
                        \/ keys[j] = keys[k] /\ j < k})
    IN [r \in 1..Len(keys) |-> CHOOSE k \in 1..Len(keys) : rank(k) = r]

SortDesc(s, keys) == [r \in 1..Len(s) |-> s[StableOrder(keys)[r]]]

ScoresOf(s) == [i \in 1..Len(s) |-> s[i].verification_score]

LengthsOf(s) == [i \in 1..Len(s) |-> s[i].reasoning]

\* max_by keeps the last of the maximal elements
LastBest(s) ==
    s[CHOOSE i \in 1..Len(s) :
        /\ \A k \in 1..Len(s) : s[k].verification_score <= s[i].verification_score
        /\ \A k \in (i + 1)..Len(s) :
              s[k].verification_score < s[i].verification_score]

SelectByScore(population, num_to_select) ==
    Truncate(SortDesc(population, ScoresOf(population)), num_to_select)

SelectByThoroughness(population, num_to_select) ==
    Truncate(SortDesc(population, LengthsOf(population)), num_to_select)

RECURSIVE DiversePick(_, _, _, _)
DiversePick(by_length, num_to_select, selected, seen_ranges) ==
    IF by_length = <<>> \/ Len(selected) >= num_to_select THEN selected
    ELSE LET length_range == Head(by_length).reasoning \div BucketWidth
         IN IF length_range \notin seen_ranges
            THEN DiversePick(Tail(by_length), num_to_select,
                             Append(selected, Head(by_length)),
                             seen_ranges \cup {length_range})
            ELSE DiversePick(Tail(by_length), num_to_select, selected,
                             seen_ranges)

SelectByDiversity(population, num_to_select) ==
    LET by_length == SortDesc(population,
                         [i \in 1..Len(population) |-> 0 - population[i].reasoning])
        selected == DiversePick(by_length, num_to_select, <<>>, {})
    IN IF Len(selected) < num_to_select
       THEN Truncate(selected \o SelectByScore(population,
                                               num_to_select - Len(selected)),
                     num_to_select)
       ELSE selected

\* choose_multiple: any num_to_select distinct elements, in any order
SelectRandom(population, num_to_select) ==
    {[i \in 1..num_to_select |-> population[f[i]]] :
        f \in {f \in [1..num_to_select -> 1..Len(population)] :
                  \A i, k \in 1..num_to_select : i # k => f[i] # f[k]}}

\* the winners a tournament of up to three random elements can have
TournamentWinners(population) ==
    {population[i] : i \in
        {i \in 1..Len(population) :
            \E T \in SUBSET (1..Len(population)) :
                /\ Cardinality(T) = Min(TournamentSize, Len(population))
                /\ i \in T
                /\ \A k \in T : population[k].verification_score
                                   <= population[i].verification_score}}

SelectByTournament(population, num_to_select) ==
    [1..num_to_select -> TournamentWinners(population)]

\* the lists select_solutions can return
SelectSolutions(population, num_to_select, criterion) ==
    IF population = <<>> THEN {<<>>}
    ELSE LET n == Min(num_to_select, Len(population))
         IN CASE criterion = "BestScore" -> {SelectByScore(population, n)}
              [] criterion = "Diversity" -> {SelectByDiversity(population, n)}
              [] criterion = "Thoroughness" -> {SelectByThoroughness(population, n)}
              [] criterion = "Random" -> SelectRandom(population, n)
              [] OTHER -> SelectByTournament(population, n)

CombineReasoning(s) == HeaderLen + SumOver(s, "reasoning") + ApproachLen * Len(s)

\* the answers select_consensus_answer can return: the counts sit in a
\* HashMap, any answer of the highest count can come out
SelectConsensusAnswer(s) ==
    {s[i].answer : i \in
        {i \in 1..Len(s) : \A k \in 1..Len(s) :
            AnswerCount(s, s[k].answer) <= AnswerCount(s, s[i].answer)}}

\* synthesize_solutions and ensemble_solutions: one fresh Solution with the
\* mean score
SynthesizeSolutions(s, id) ==
    IF s = <<>> THEN {<<>>}
    ELSE {<<[id |-> <<"new", id>>, answer |-> a,
             reasoning |-> CombineReasoning(s),
             verification_score |-> SumOver(s, "verification_score") \div Len(s),
             token_count |-> SumOver(s, "token_count")]>> :
            a \in SelectConsensusAnswer(s)}

MergeSolutions(s, iteration) ==
    [k \in 1..Len(s) |->
        [s[k] EXCEPT !.id = <<"merged", iteration, k - 1>>,
                       !.verification_score = Min(@ + ScoreOfTenths(1), RsaScale)]]

IterativeImprovement(s, iteration) ==
    IF s = <<>> THEN <<>>
    ELSE <<[LastBest(s) EXCEPT
               !.id = <<"improved", iteration>>,
               !.verification_score = Min(@ + ScoreOfTenths(1) \div 2, RsaScale)]>>

\* the lists refine_solutions can return
RefineSolutions(selected, iteration, strategy, id) ==
    IF selected = <<>> THEN {<<>>}
    ELSE CASE strategy = "Synthesis" -> SynthesizeSolutions(selected, id)
           [] strategy = "Merge" -> {MergeSolutions(selected, iteration)}
           [] strategy = "Iterative" -> {IterativeImprovement(selected, iteration)}
           [] OTHER -> SynthesizeSolutions(selected, id)

Contains(s, x) == \E i \in 1..Len(s) : s[i] = x

\* RSAConfig::new with the builders
RsaConfigs ==
    {c \in [population_size : 0..MaxPopulation,
            selection_size : 0..MaxPopulation,
            num_iterations : 0..MaxRsaIterations,
            selection_criterion : {"BestScore", "Diversity", "Thoroughness",
                                   "Random", "Tournament"},
            refinement_strategy : {"Synthesis", "Merge", "Iterative", "Ensemble"},
            elitism_enabled : BOOLEAN] :
        c.selection_size <= c.population_size}

RsaInputs ==
    UNION {{[i \in 1..n |->
               [id |-> <<"in", i>>, answer |-> <<1 + (i % 2), 0>>,
                reasoning |-> r[i], verification_score |-> ScoreOfTenths(v[i]),
                token_count |-> i]] :
              v \in [1..n -> {6, 8}], r \in [1..n -> {2, 600}]} :
           n \in 0..MaxInput}

RsaStart ==
    /\ mcts = NoCall /\ pick = NoCall
    /\ \E entry \in {"run_rsa", "aggregate_rsa"}, input \in RsaInputs,
          c \in RsaConfigs :
          /\ entry = "aggregate_rsa" =>
                /\ c.selection_criterion = "BestScore"
                /\ c.refinement_strategy = "Synthesis"
                /\ c.elitism_enabled
          /\ rsa = [pc |-> "call", entry |-> entry, input |-> input, cfg |-> c,
                    population |-> <<>>, best_solution |-> <<>>,
                    iteration |-> 0, nextId |-> 0, aggregated |-> <<>>]

\* run_rsa up to its loop: the empty input is rejected, the first element
\* becomes best_solution, the population is cut to population_size
RunRsaEnter ==
    /\ rsa.pc = "call" /\ rsa.entry = "run_rsa"
    /\ rsa' = IF rsa.input = <<>>
              THEN [rsa EXCEPT !.pc = "err"]
              ELSE [rsa EXCEPT !.pc = "loop",
                               !.best_solution = <<rsa.input[1]>>,
                               !.population = Truncate(rsa.input,
                                                       rsa.cfg.population_size)]
    /\ UNCHANGED nonRsaVars

\* one iteration of the loop of run_rsa
RunRsaIteration ==
    /\ rsa.pc = "loop"
    /\ rsa.iteration < rsa.cfg.num_iterations
    /\ \E selected \in SelectSolutions(rsa.population, rsa.cfg.selection_size,
                                       rsa.cfg.selection_criterion) :
       \E refined \in RefineSolutions(selected, rsa.iteration,
                                      rsa.cfg.refinement_strategy,
                                      rsa.nextId + 1) :
          LET best == rsa.best_solution[1]
              extended == rsa.population \o refined
              kept == IF rsa.cfg.elitism_enabled /\ ~Contains(extended, best)
                      THEN Append(extended, best) ELSE extended
              trimmed == SubSeq(kept, 1, Min(Len(kept), rsa.cfg.population_size))
              new_best == IF trimmed # <<>>
                             /\ LastBest(trimmed).verification_score
                                   > best.verification_score
                          THEN LastBest(trimmed) ELSE best
          IN rsa' = [rsa EXCEPT !.population = trimmed,
                                !.best_solution = <<new_best>>,
                                !.iteration = @ + 1,
                                !.nextId = @ + 1]
    /\ UNCHANGED nonRsaVars

\* the loop is over: run_rsa returns best_solution and the metadata
RunRsaReturn ==
    /\ rsa.pc = "loop"
    /\ rsa.iteration >= rsa.cfg.num_iterations
    /\ rsa' = [rsa EXCEPT !.pc = "ok"]
    /\ UNCHANGED nonRsaVars

\* Aggregator::aggregate_rsa: it returns Ok with the aggregated Solutions,
\* none of them for an empty input
AggregateRsaCall ==
    /\ rsa.pc = "call" /\ rsa.entry = "aggregate_rsa"
    /\ \E aggregated \in AggregateRsa(rsa.input, rsa.cfg.population_size,
                                      rsa.cfg.selection_size,
                                      rsa.cfg.num_iterations, rsa.nextId + 1) :
          rsa' = [rsa EXCEPT !.pc = "ok", !.aggregated = aggregated]
    /\ UNCHANGED nonRsaVars

RsaNext ==
    \/ RunRsaEnter
    \/ RunRsaIteration
    \/ RunRsaReturn
    \/ AggregateRsaCall

(***************************************************************************)
(* MCTS (crates/mars/src/strategies/mcts/mod.rs).  The arena `nodes` is a  *)
(* sequence, so the node the source keeps at index k is nodes[k + 1] and   *)
(* the root is nodes[1].  A DialogueState is its history, a list of        *)
(* <<role, content>>, and its query; the stub of apply_action makes the    *)
(* query of a child <<"next", action>>.  A value counts in units of 0.5,   *)
(* the one quality the stub of evaluate_state returns.                     *)
(***************************************************************************)
MaxSimulations == 3

MaxActions == 3

MaxHistory == 1

MaxSearches == 2

EvaluateState == 1

MctsConfigs ==
    [num_simulations : 0..MaxSimulations,
     num_actions : 0..MaxActions,
     exploration_weight : {0, 2},
     max_history_length : 0..MaxHistory]

DialogueStates ==
    [history : {<<>>, <<<<"user", 0>>>>},
     query : {<<"initial">>, <<"goodbye">>}]

NewNode(state, parent) ==
    [state |-> state, parent |-> parent, children |-> <<>>, visits |-> 0,
     value |-> 0]

IsTerminal(state, c) ==
    \/ Len(state.history) > c.max_history_length
    \/ state.query = <<"goodbye">>

\* The order of the UCB scores of the children of one node.  Every value is
\* 0.5 * visits, so the exploitation term is 0 for an unvisited child and
\* 0.5 for a visited one (visits + 1e-8 is visits in f32).  The exploration
\* term w * sqrt(ln(parent_visits + 1) / (visits + 1e-8)) is 0 for w = 0;
\* for w > 0 it is above 1000 for an unvisited child and falls as visits
\* grow (the parent of a child has at least one visit).
UcbScore(node, exploration_weight) ==
    IF exploration_weight = 0
    THEN IF node.visits = 0 THEN 0 ELSE 1
    ELSE 0 - node.visits

\* select: the first child of the highest UCB score (the comparison is >)
Select(nodes, node_idx, exploration_weight) ==
    LET children == nodes[node_idx].children
        score(k) == UcbScore(nodes[children[k]], exploration_weight)
    IN IF children = <<>> THEN node_idx
       ELSE children[CHOOSE k \in 1..Len(children) :
                /\ \A j \in 1..Len(children) : score(j) <= score(k)
                /\ \A j \in 1..(k - 1) : score(j) < score(k)]

\* the selection loop of search: descend until a node has no children
RECURSIVE Descend(_, _, _)
Descend(nodes, node_idx, exploration_weight) ==
    IF nodes[node_idx].children = <<>> THEN node_idx
    ELSE Descend(nodes, Select(nodes, node_idx, exploration_weight),
                 exploration_weight)

ApplyAction(state, action) ==
    [history |-> Append(state.history, <<"assistant", action>>),
     query |-> <<"next", action>>]

\* the arena after expand has attached one child per generated action
RECURSIVE AttachChildren(_, _, _, _)
AttachChildren(nodes, node_idx, action, num_actions) ==
    IF action >= num_actions THEN nodes
    ELSE LET child == NewNode(ApplyAction(nodes[node_idx].state, action),
                              node_idx)
             child_idx == Len(nodes) + 1
             pushed == Append(nodes, child)
         IN AttachChildren(
                [pushed EXCEPT ![node_idx].children = Append(@, child_idx)],
                node_idx, action + 1, num_actions)

\* backpropagate: every node from node_idx up to the one without a parent
\* gets one visit and the value
RECURSIVE Backpropagate(_, _, _)
Backpropagate(nodes, node_idx, value) ==
    LET updated == [nodes EXCEPT ![node_idx].visits = @ + 1,
                                 ![node_idx].value = @ + value]
    IN IF nodes[node_idx].parent = 0 THEN updated
       ELSE Backpropagate(updated, nodes[node_idx].parent, value)

\* the first of the most visited children
BestChildKeepingFirst(nodes, children) ==
    children[CHOOSE k \in 1..Len(children) :
        /\ \A j \in 1..Len(children) :
              nodes[children[j]].visits <= nodes[children[k]].visits
        /\ \A j \in 1..(k - 1) :
              nodes[children[j]].visits < nodes[children[k]].visits]

\* max_by_key keeps the last of the elements with the highest key
BestChild(nodes, children) ==
    children[CHOOSE k \in 1..Len(children) :
        /\ \A j \in 1..Len(children) :
              nodes[children[j]].visits <= nodes[children[k]].visits
        /\ \A j \in (k + 1)..Len(children) :
              nodes[children[j]].visits < nodes[children[k]].visits]

\* MCTS::new
MctsStart ==
    /\ rsa = NoCall /\ pick = NoCall
    /\ \E c \in MctsConfigs :
          mcts = [pc |-> "idle", cfg |-> c, nodes |-> <<>>, root_idx |-> 0,
                  simulation |-> 0, searches |-> 0,
                  initial_state |-> [history |-> <<>>, query |-> <<"initial">>],
                  best_state |-> [history |-> <<>>, query |-> <<"initial">>]]

\* search is called: the root is created from initial_state when there is
\* none yet
SearchBegin ==
    /\ mcts.pc \in {"idle", "returned"}
    /\ mcts.searches < MaxSearches
    /\ \E initial_state \in DialogueStates :
          mcts' = [mcts EXCEPT
                      !.pc = "searching",
                      !.initial_state = initial_state,
                      !.simulation = 0,
                      !.nodes = IF mcts.root_idx = 0
                                THEN Append(@, NewNode(initial_state, 0))
                                ELSE @,
                      !.root_idx = 1]
    /\ UNCHANGED nonMctsVars

\* one simulation: selection, expansion, simulation, backpropagation
Simulation ==
    /\ mcts.pc = "searching"
    /\ mcts.simulation < mcts.cfg.num_simulations
    /\ LET leaf == Descend(mcts.nodes, mcts.root_idx,
                           mcts.cfg.exploration_weight)
           expanded == IF IsTerminal(mcts.nodes[leaf].state, mcts.cfg)
                       THEN mcts.nodes
                       ELSE AttachChildren(mcts.nodes, leaf, 0,
                                           mcts.cfg.num_actions)
           candidates == IF expanded[leaf].children = <<>> THEN {leaf}
                         ELSE {expanded[leaf].children[k] :
                                  k \in 1..Len(expanded[leaf].children)}
       IN \E node_idx \in candidates :
             mcts' = [mcts EXCEPT
                         !.nodes = Backpropagate(expanded, node_idx,
                                                 EvaluateState),
                         !.simulation = @ + 1]
    /\ UNCHANGED nonMctsVars

\* the simulations are over: search returns the state of the most visited
\* child of the root, the state of the root when it has no child
SearchReturn ==
    /\ mcts.pc = "searching"
    /\ mcts.simulation >= mcts.cfg.num_simulations
    /\ LET root == mcts.nodes[mcts.root_idx]
       IN mcts' = [mcts EXCEPT
                      !.pc = "returned",
                      !.searches = @ + 1,
                      !.best_state =
                          IF root.children = <<>> THEN root.state
                          ELSE mcts.nodes[BestChild(mcts.nodes,
                                                    root.children)].state]
    /\ UNCHANGED nonMctsVars

MctsNext ==
    \/ SearchBegin
    \/ Simulation
    \/ SearchReturn

(***************************************************************************)
(* Best-of-N against a backend whose calls all succeed, and the selection  *)
(* of the best candidate (crates/mars/src/strategies/best_of_n/mod.rs).    *)
(* A candidate keeps the lengths of its reasoning and of its answer, its   *)
(* score in tenths and its temperature in units of 1/temp_scale.  A        *)
(* selection score is the fraction num/den.                                *)
(***************************************************************************)
MaxBestOfN == 7

MaxPick == 3

\* the temperatures of BestOfNConfig::new, 0.3 + i * 0.7 / num_temps, in
\* units of 1 / (10 * num_temps)
Temperatures(c) ==
    [i \in 1..c.num_temperatures |-> 3 * c.num_temperatures + 7 * (i - 1)]

SelectionMethods ==
    {"BestScore", "HighestConfidence", "MostThorough", "MostConcise",
     "MultiCriteria"}

\* the first and the last position of the highest key
FirstMax(keys) ==
    CHOOSE k \in 1..Len(keys) :
        /\ \A j \in 1..Len(keys) : keys[j] <= keys[k]
        /\ \A j \in 1..(k - 1) : keys[j] < keys[k]

LastMax(keys) ==
    CHOOSE k \in 1..Len(keys) :
        /\ \A j \in 1..Len(keys) : keys[j] <= keys[k]
        /\ \A j \in (k + 1)..Len(keys) : keys[j] < keys[k]

MaxOf(S) == CHOOSE x \in S : \A y \in S : y <= x

MinOf(S) == CHOOSE x \in S : \A y \in S : x <= y

Abs(x) == IF x < 0 THEN 0 - x ELSE x

RECURSIVE ProductOver(_, _)
ProductOver(s, field) ==
    IF s = <<>> THEN 1 ELSE Head(s)[field] * ProductOver(Tail(s), field)

BestOfNSelectByScore(s) ==
    LET keys == [i \in 1..Len(s) |-> s[i].verification_score]
    IN [best_idx |-> FirstMax(keys),
        score |-> [num |-> keys[FirstMax(keys)], den |-> 10]]

\* verification_score * 0.6 + min(len / 1000, 1) * 0.4, in units of 1/100000
BestOfNSelectByConfidence(s) ==
    LET keys == [i \in 1..Len(s) |->
                    6000 * s[i].verification_score
                       + 40 * Min(s[i].reasoning, 1000)]
    IN [best_idx |-> FirstMax(keys),
        score |-> [num |-> keys[FirstMax(keys)], den |-> 100000]]

BestOfNSelectByThoroughness(s) ==
    LET keys == [i \in 1..Len(s) |-> s[i].reasoning]
    IN [best_idx |-> FirstMax(keys),
        score |-> [num |-> Min(keys[FirstMax(keys)], 2000), den |-> 2000]]

BestOfNSelectByConciseness(s) ==
    LET keys == [i \in 1..Len(s) |-> 0 - s[i].answer]
        min_length == s[FirstMax(keys)].answer
    IN [best_idx |-> FirstMax(keys),
        score |-> [num |-> 500 - Min(min_length, 500), den |-> 500]]

\* the denominator of the scores of select_by_multi_criteria
MultiDen(s, temp_scale) ==
    LET max_verification == MaxOf({s[i].verification_score : i \in 1..Len(s)})
        max_reasoning == MaxOf({s[i].reasoning : i \in 1..Len(s)})
        min_answer == MinOf({s[i].answer : i \in 1..Len(s)})
    IN [v |-> IF max_verification > 0 THEN max_verification ELSE 1,
        r |-> IF max_reasoning > 0 THEN max_reasoning ELSE 1,
        a |-> IF min_answer > 0 THEN ProductOver(s, "answer") ELSE 1,
        t |-> temp_scale * Len(s)]

\* scores[i] of select_by_multi_criteria, in units of
\* 1 / (10 * d.v * d.r * d.a * d.t) for d == MultiDen(s, temp_scale)
MultiScore(s, i, temp_scale) ==
    LET d == MultiDen(s, temp_scale)
        max_verification == MaxOf({s[k].verification_score : k \in 1..Len(s)})
        max_reasoning == MaxOf({s[k].reasoning : k \in 1..Len(s)})
        min_answer == MinOf({s[k].answer : k \in 1..Len(s)})
        off == Abs(Len(s) * s[i].temperature - SumOver(s, "temperature"))
    IN (IF max_verification > 0
        THEN 4 * s[i].verification_score * d.r * d.a * d.t ELSE 0)
       + (IF max_reasoning > 0
          THEN 3 * s[i].reasoning * d.v * d.a * d.t ELSE 0)
       + (IF min_answer > 0
          THEN 2 * min_answer * (d.a \div s[i].answer) * d.v * d.r * d.t
          ELSE 0)
       + d.v * d.r * d.a * (d.t - Min(off, d.t))

\* the index is taken with max_by, which keeps the last of the highest
BestOfNSelectByMultiCriteria(s, temp_scale) ==
    LET keys == [i \in 1..Len(s) |-> MultiScore(s, i, temp_scale)]
        d == MultiDen(s, temp_scale)
    IN [best_idx |-> LastMax(keys),
        score |-> [num |-> keys[LastMax(keys)],
                   den |-> 10 * d.v * d.r * d.a * d.t]]

\* select_best_solution on a list that is not empty
SelectBestSolution(s, method, temp_scale) ==
    CASE method = "BestScore" -> BestOfNSelectByScore(s)
      [] method = "HighestConfidence" -> BestOfNSelectByConfidence(s)
      [] method = "MostThorough" -> BestOfNSelectByThoroughness(s)
      [] method = "MostConcise" -> BestOfNSelectByConciseness(s)
      [] OTHER -> BestOfNSelectByMultiCriteria(s, temp_scale)

\* the score the selection method ranks candidate i by
SelectionKey(s, i, method, temp_scale) ==
    CASE method = "BestScore" -> s[i].verification_score
      [] method = "HighestConfidence" ->
            6000 * s[i].verification_score + 40 * Min(s[i].reasoning, 1000)
      [] method = "MostThorough" -> s[i].reasoning
      [] method = "MostConcise" -> 0 - s[i].answer
      [] OTHER -> MultiScore(s, i, temp_scale)

\* what parse_response can make of the text of a call
ParsedResponses == {[reasoning |-> 0, answer |-> 1], [reasoning |-> 2, answer |-> 2]}

Candidates ==
    [reasoning : {0, 2}, answer : {1, 2}, verification_score : {0, 5},
     temperature : {3, 7}, token_count : {0}]

CandidateLists == UNION {[1..n -> Candidates] : n \in 0..MaxPick}

NoSelection == [best_idx |-> 0, score |-> [num |-> 0, den |-> 1]]

BestOfNStart ==
    /\ rsa = NoCall /\ mcts = NoCall
    /\ \E method \in SelectionMethods :
          \/ \E n \in 0..MaxBestOfN :
                pick = [pc |-> "generate", op |-> "run_best_of_n",
                        cfg |-> BestOfNConfigNew(n), method |-> method,
                        temp_scale |-> 10 * Min(n, 5), solutions |-> <<>>,
                        calls |-> 0, total_tokens |-> 0,
                        selection |-> NoSelection, num_candidates |-> 0]
          \/ \E s \in CandidateLists :
                pick = [pc |-> "call", op |-> "select_best_solution",
                        cfg |-> BestOfNConfigNew(Len(s)), method |-> method,
                        temp_scale |-> 10, solutions |-> s,
                        calls |-> 0, total_tokens |-> 0,
                        selection |-> NoSelection, num_candidates |-> 0]

\* one turn of the loop of run_best_of_n with a call that succeeds
GenerateCandidate ==
    /\ pick.pc = "generate"
    /\ Len(pick.solutions) < BestOfNTurns(pick.cfg)
    /\ \E parsed \in ParsedResponses, usage \in Usages :
          LET total == IF usage.some
                       THEN pick.total_tokens + UsageTotal(usage)
                       ELSE pick.total_tokens
              solution == [reasoning |-> parsed.reasoning,
                           answer |-> parsed.answer,
                           verification_score |-> 0,
                           temperature |->
                               Temperatures(pick.cfg)[Len(pick.solutions) + 1],
                           token_count |-> total]
          IN pick' = [pick EXCEPT !.solutions = Append(@, solution),
                                  !.calls = @ + 1,
                                  !.total_tokens = total]
    /\ UNCHANGED nonPickVars

\* the code of run_best_of_n after the loop
BestOfNReturn ==
    /\ pick.pc = "generate"
    /\ Len(pick.solutions) >= BestOfNTurns(pick.cfg)
    /\ pick' = IF pick.solutions = <<>>
               THEN [pick EXCEPT !.pc = "err"]
               ELSE [pick EXCEPT
                        !.pc = "ok",
                        !.selection = SelectBestSolution(pick.solutions,
                                          pick.method, pick.temp_scale),
                        !.num_candidates = Len(pick.solutions)]
    /\ UNCHANGED nonPickVars

\* select_best_solution called on a list of candidates
SelectBestSolutionCall ==
    /\ pick.pc = "call"
    /\ pick.op = "select_best_solution"
    /\ pick' = IF pick.solutions = <<>>
               THEN [pick EXCEPT !.pc = "err"]
               ELSE [pick EXCEPT
                        !.pc = "ok",
                        !.selection = SelectBestSolution(pick.solutions,
                                          pick.method, pick.temp_scale)]
    /\ UNCHANGED nonPickVars

BestOfNNext ==
    \/ GenerateCandidate
    \/ BestOfNReturn
    \/ SelectBestSolutionCall

(***************************************************************************)
(* Self-consistency voting                                                 *)
(* (crates/mars/src/strategies/self_consistency/mod.rs).  The text of a    *)
(* response is the list of its lines, a line is one word ("" is an empty   *)
(* line, every other word is one character long).  A HashMap is iterated   *)
(* in an order the program does not control: max_by and max_by_key over a  *)
(* HashMap can return any of the entries that share the highest key.       *)
(***************************************************************************)
MaxPaths == 3

ResponseTexts ==
    {<<>>, <<"A">>, <<"x", "A">>, <<"B", "">>, <<"y", "y", "B">>}

LineLen(line) == IF line = "" THEN 0 ELSE 1

RECURSIVE TextLen(_)
TextLen(text) ==
    IF text = <<>> THEN 0
    ELSE LineLen(Head(text)) + (IF Len(text) > 1 THEN 1 ELSE 0)
            + TextLen(Tail(text))

\* the last line that is not empty, "" when there is none
RECURSIVE LastLine(_)
LastLine(text) ==
    IF text = <<>> THEN ""
    ELSE IF text[Len(text)] # "" THEN text[Len(text)]
    ELSE LastLine(SubSeq(text, 1, Len(text) - 1))

\* extract_answer; a text of several lines is an answer of its own under
\* FullResponse
ExtractAnswer(text, strategy) ==
    IF strategy = "LastLine" THEN <<LastLine(text)>> ELSE text

VotingStrategies ==
    {"MajorityVote", "QualityWeighted", "HighestConfidence", "RankedChoice"}

SelfConsistencyConfigs ==
    [num_paths : 0..MaxPaths,
     extraction_strategy : {"LastLine", "FullResponse"},
     voting_strategy : VotingStrategies]

AnswersOf(paths) == {paths[i].extracted_answer : i \in 1..Len(paths)}

\* vote_counts of consensus_vote
VoteCounts(paths) ==
    [a \in AnswersOf(paths) |->
        Cardinality({i \in 1..Len(paths) : paths[i].extracted_answer = a})]

FirstAppearance(paths, a) ==
    CHOOSE i \in 1..Len(paths) :
        /\ paths[i].extracted_answer = a
        /\ \A k \in 1..(i - 1) : paths[k].extracted_answer # a

\* the entries of the highest key
ArgMax(S, key) == {a \in S : \A b \in S : key[b] <= key[a]}

MajorityVoteFirstSeen(paths) ==
    LET votes == VoteCounts(paths)
        top == ArgMax(DOMAIN votes, votes)
    IN {CHOOSE a \in top :
            \A b \in top : FirstAppearance(paths, a) <= FirstAppearance(paths, b)}

\* the answers majority_vote can return
MajorityVote(paths) ==
    LET votes == VoteCounts(paths) IN ArgMax(DOMAIN votes, votes)

\* the answers quality_weighted_vote can return.  A weight is the sum of
\* min(len / avg, 2) over the paths of the answer, in units of 1 / total for
\* total the sum of all lengths; len / avg is NaN for total = 0 and
\* NaN.min(2.0) is 2.0
QualityWeightedVote(paths) ==
    LET total == SumOver(paths, "reasoning_length")
        factor(i) == IF total = 0 THEN 2
                     ELSE Min(paths[i].reasoning_length * Len(paths), 2 * total)
        weight(a, i) == IF paths[i].extracted_answer = a THEN factor(i) ELSE 0
        Sum[a \in AnswersOf(paths), i \in 0..Len(paths)] ==
            IF i = 0 THEN 0 ELSE Sum[a, i - 1] + weight(a, i)
        weighted_scores == [a \in AnswersOf(paths) |-> Sum[a, Len(paths)]]
    IN ArgMax(AnswersOf(paths), weighted_scores)

\* the answers highest_confidence_vote can return.  A confidence is
\* vote_ratio * 0.7 + min(avg_quality, 1) * 0.3, in units of
\* 1 / (10000 * n * n!) for n the number of paths
HighestConfidenceVote(paths) ==
    LET votes == VoteCounts(paths)
        n == Len(paths)
        length(a, i) == IF paths[i].extracted_answer = a
                        THEN paths[i].reasoning_length ELSE 0
        Sum[a \in AnswersOf(paths), i \in 0..n] ==
            IF i = 0 THEN 0 ELSE Sum[a, i - 1] + length(a, i)
        confidence_scores ==
            [a \in AnswersOf(paths) |->
                7 * votes[a] * 1000 * Fact(n)
                   + 3 * Min(Sum[a, n], 1000 * votes[a]) * n
                       * (Fact(n) \div votes[a])]
    IN ArgMax(AnswersOf(paths), confidence_scores)

\* ranked_choice_vote: the highest count, then the earliest first appearance
RankedChoiceVote(paths) ==
    LET votes == VoteCounts(paths)
        top == ArgMax(DOMAIN votes, votes)
    IN {CHOOSE a \in top :
            \A b \in top : FirstAppearance(paths, a) <= FirstAppearance(paths, b)}

\* the winners consensus_vote can return
ConsensusVote(paths, voting_strategy) ==
    CASE voting_strategy = "MajorityVote" -> MajorityVote(paths)
      [] voting_strategy = "QualityWeighted" -> QualityWeightedVote(paths)
      [] voting_strategy = "HighestConfidence" -> HighestConfidenceVote(paths)
      [] OTHER -> RankedChoiceVote(paths)

\* calculate_consensus_score: min(max_votes / total_paths, 1)
CalculateConsensusScore(votes, total_paths) ==
    IF DOMAIN votes = {} \/ total_paths = 0 THEN [num |-> 0, den |-> 1]
    ELSE [num |-> Min(MaxOf({votes[a] : a \in DOMAIN votes}), total_paths),
          den |-> total_paths]

SelfConsistencyStart ==
    /\ rsa = NoCall /\ mcts = NoCall
    /\ \E c \in SelfConsistencyConfigs :
          pick = [pc |-> "generate", op |-> "run_self_consistency", cfg |-> c,
                  turns |-> SelfConsistencyTurns(
                                SelfConsistencyConfigNew(c.num_paths)),
                  paths |-> <<>>, consensus_answer |-> <<>>,
                  consensus_score |-> [num |-> 0, den |-> 1]]

\* one turn of the loop of run_self_consistency with a call that succeeds
GeneratePath ==
    /\ pick.pc = "generate"
    /\ pick.op = "run_self_consistency"
    /\ Len(pick.paths) < pick.turns
    /\ \E text \in ResponseTexts :
          LET path == [id |-> Len(pick.paths),
                       extracted_answer |->
                           ExtractAnswer(text, pick.cfg.extraction_strategy),
                       reasoning_length |-> TextLen(text)]
          IN pick' = [pick EXCEPT !.paths = Append(@, path)]
    /\ UNCHANGED nonPickVars

\* the code of run_self_consistency after the loop
SelfConsistencyReturn ==
    /\ pick.pc = "generate"
    /\ pick.op = "run_self_consistency"
    /\ Len(pick.paths) >= pick.turns
    /\ IF pick.paths = <<>>
       THEN pick' = [pick EXCEPT !.pc = "err"]
       ELSE \E final_answer \in ConsensusVote(pick.paths,
                                              pick.cfg.voting_strategy) :
               pick' = [pick EXCEPT
                           !.pc = "ok",
                           !.consensus_answer = final_answer,
                           !.consensus_score =
                               CalculateConsensusScore(VoteCounts(pick.paths),
                                   Len(pick.paths))]
    /\ UNCHANGED nonPickVars

SelfConsistencyNext ==
    \/ GeneratePath
    \/ SelfConsistencyReturn

(***************************************************************************)
(* RTO call by call (crates/mars/src/strategies/rto/mod.rs): every         *)
(* generate_solution call either fails or returns a text and the token     *)
(* count of its stream.  A text is a list of pieces: a word character      *)
(* ("a", "7"), a blank ("sp"), a newline ("nl") or a code fence ("fence"). *)
(***************************************************************************)
RtoTexts ==
    {<<>>,
     <<"a">>,
     <<"fence", "nl", "a", "fence">>,
     <<"sp", "fence", "nl", "a", "nl", "fence", "nl">>,
     <<"fence", "nl", "7", "fence">>,
     <<"a", "sp", "fence", "nl", "7", "fence">>}

RtoDescriptions == {<<>>, <<"a">>}

RtoTokenCounts == {0, 3}

\* RTOConfig::new().with_all_temperatures(t), t in tenths
RtoConfigs == [temperature : {1, 25}]

\* RTOConfig::validate: every temperature lies in [0.0, 2.0]
RtoValidate(c) == c.temperature >= 0 /\ c.temperature <= 20

RtoStart ==
    /\ rsa = NoCall /\ mcts = NoCall
    /\ \E c \in RtoConfigs :
          pick = [pc |-> "validate", op |-> "run_rto", cfg |-> c,
                  step |-> "c1", calls |-> <<>>,
                  initial_solution |-> <<>>, description |-> <<>>,
                  second_solution |-> <<>>,
                  tokens_c1 |-> 0, tokens_q2 |-> 0, tokens_c2 |-> 0,
                  tokens_c3 |-> 0, solutions_differed |-> FALSE,
                  synthesized_solution |-> <<>>, final_answer |-> <<>>,
                  total_tokens |-> 0]

\* config.validate()?
RtoValidateConfig ==
    /\ pick.pc = "validate"
    /\ pick.op = "run_rto"
    /\ pick' = [pick EXCEPT !.pc = IF RtoValidate(pick.cfg) THEN "call" ELSE "err"]
    /\ UNCHANGED nonPickVars

\* a generate_solution call returns Err: run_rto returns it
RtoCallFails ==
    /\ pick.pc = "call"
    /\ pick.op = "run_rto"
    /\ pick' = [pick EXCEPT !.pc = "err", !.calls = Append(@, pick.step)]
    /\ UNCHANGED nonPickVars

\* steps 1 and 2: C1 and Q2
RtoFirstCalls ==
    /\ pick.pc = "call"
    /\ pick.op = "run_rto"
    /\ pick.step \in {"c1", "q2"}
    /\ \E tokens \in RtoTokenCounts :
          IF pick.step = "c1"
          THEN \E text \in RtoTexts :
                  pick' = [pick EXCEPT !.calls = Append(@, "c1"),
                                       !.initial_solution = text,
                                       !.tokens_c1 = tokens,
                                       !.step = "q2"]
          ELSE \E text \in RtoDescriptions :
                  pick' = [pick EXCEPT !.calls = Append(@, "q2"),
                                       !.description = text,
                                       !.tokens_q2 = tokens,
                                       !.step = "c2"]
    /\ UNCHANGED nonPickVars

\* step 3 and step 4: C2 and the comparison; without a difference run_rto
\* returns the initial solution
RtoSecondCall ==
    /\ pick.pc = "call"
    /\ pick.op = "run_rto"
    /\ pick.step = "c2"
    /\ \E text \in RtoTexts, tokens \in RtoTokenCounts :
          LET differed == SolutionsDiffer(pick.initial_solution, text) IN
          pick' = IF differed
                  THEN [pick EXCEPT !.calls = Append(@, "c2"),
                                    !.second_solution = text,
                                    !.tokens_c2 = tokens,
                                    !.solutions_differed = TRUE,
                                    !.step = "c3"]
                  ELSE [pick EXCEPT !.calls = Append(@, "c2"),
                                    !.second_solution = text,
                                    !.tokens_c2 = tokens,
                                    !.solutions_differed = FALSE,
                                    !.final_answer = pick.initial_solution,
                                    !.total_tokens = pick.tokens_c1
                                        + pick.tokens_q2 + tokens + 0,
                                    !.step = "done",
                                    !.pc = "ok"]
    /\ UNCHANGED nonPickVars

\* step 5: C3, the synthesis
RtoSynthesisCall ==
    /\ pick.pc = "call"
    /\ pick.op = "run_rto"
    /\ pick.step = "c3"
    /\ \E text \in RtoTexts, tokens \in RtoTokenCounts :
          pick' = [pick EXCEPT !.calls = Append(@, "c3"),
                               !.tokens_c3 = tokens,
                               !.synthesized_solution = <<text>>,
                               !.final_answer = text,
                               !.total_tokens = pick.tokens_c1 + pick.tokens_q2
                                   + pick.tokens_c2 + tokens,
                               !.step = "done",
                               !.pc = "ok"]
    /\ UNCHANGED nonPickVars

RtoNext ==
    \/ RtoValidateConfig
    \/ RtoCallFails
    \/ RtoFirstCalls
    \/ RtoSecondCall
    \/ RtoSynthesisCall

(***************************************************************************)
(* The builders of MarsConfig (mars/src/config.rs), applied to the default *)
(* in any order before the coordinator is made and run.  A configuration   *)
(* keeps the length of its temperatures.                                   *)
(***************************************************************************)
\* MarsConfig::new() in the caller's hands
ConfigStart ==
    /\ mcfg = DefaultConfig
    /\ mphase = "building"
    /\ mstep = "start"
    /\ mi = NoLoop
    /\ msnap = <<>>
    /\ pending = <<>>
    /\ events = <<>>
    /\ nextId = 0
    /\ network = {}
    /\ chosen = NoChosen
    /\ output = NoOutput
    /\ phaseLog = NewLog

WithAdvancedFeatures(c) ==
    [c EXCEPT !.enable_aggregation = TRUE, !.enable_strategy_network = TRUE]

Lightweight(c) ==
    [c EXCEPT !.num_agents = 2, !.max_iterations = 2,
              !.enable_aggregation = FALSE, !.enable_strategy_network = FALSE]

\* resize fills up with 1.0 and truncate cuts: either way num temperatures
WithNumAgents(c, num) ==
    IF num > 0 THEN [c EXCEPT !.num_agents = num, !.num_temperatures = num]
    ELSE c

\* temps is the length of the vector handed in
WithTemperatures(c, temps) ==
    IF temps # 0 THEN [c EXCEPT !.num_temperatures = temps] ELSE c

WithMaxIterations(c, max) ==
    IF max > 0 THEN [c EXCEPT !.max_iterations = max] ELSE c

\* a builder takes the configuration and hands back the changed one
BuilderFrame ==
    /\ UNCHANGED <<mphase, mstep, mi, msnap, pending, events, nextId, network,
                   chosen, output, phaseLog, solutions>>
    /\ UNCHANGED nonMarsVars

CallWithAdvancedFeatures ==
    /\ mphase = "building"
    /\ mcfg' = WithAdvancedFeatures(mcfg)
    /\ BuilderFrame

CallLightweight ==
    /\ mphase = "building"
    /\ mcfg' = Lightweight(mcfg)
    /\ BuilderFrame

CallWithNumAgents ==
    /\ mphase = "building"
    /\ \E num \in 0..MaxAgents : mcfg' = WithNumAgents(mcfg, num)
    /\ BuilderFrame

CallWithTemperatures ==
    /\ mphase = "building"
    /\ \E temps \in 0..MaxAgents : mcfg' = WithTemperatures(mcfg, temps)
    /\ BuilderFrame

CallWithMaxIterations ==
    /\ mphase = "building"
    /\ \E max \in 0..MaxIterations : mcfg' = WithMaxIterations(mcfg, max)
    /\ BuilderFrame

\* MarsCoordinator::new(config) and the call of run
NewCoordinator ==
    /\ mphase = "building"
    /\ mphase' = "exploration"
    /\ UNCHANGED <<mcfg, mstep, mi, msnap, pending, events, nextId, network,
                   chosen, output, phaseLog, solutions>>
    /\ UNCHANGED nonMarsVars

ConfigNext ==
    \/ CallWithAdvancedFeatures
    \/ CallLightweight
    \/ CallWithNumAgents
    \/ CallWithTemperatures
    \/ CallWithMaxIterations
    \/ NewCoordinator
    \/ ExplorationStarted
    \/ SolutionGenerated

(***************************************************************************)
(* PVG (crates/mars/src/strategies/pvg/mod.rs).  A temperature is an       *)
(* integer number of hundredths, a generated solution is the length of its *)
(* text and a score is one of the values extract_score yields.             *)
(***************************************************************************)
MaxRounds == 2

MaxPvgSolutions == 1

PvgConfigs ==
    [num_solutions : 0..MaxPvgSolutions,
     num_rounds : 0..MaxRounds,
     initial_temperature : {0, 1, 5, 10, 70, 150, 200, 250}]

\* PVGConfig::validate, the token limits being those of PVGConfig::new()
PvgValidate(c) ==
    /\ c.num_solutions # 0
    /\ c.num_rounds # 0
    /\ c.initial_temperature >= 0 /\ c.initial_temperature <= 200

\* (initial_temperature * 10.0 - (round as f32 * 10.0)).max(0.1) / 10.0
PvgTemperature(c, round) ==
    LET scaled == c.initial_temperature * 10 - round * 1000
    IN (IF scaled > 10 THEN scaled ELSE 10) \div 10

PvgTexts == {0, 8}

PvgScores == {0, 5, 10}

\* estimate_tokens: a quarter of the bytes of each text, 50 per score
EstimateTokens(texts, scores) ==
    LET quarters == [k \in 1..Len(texts) |-> [tokens |-> texts[k] \div 4]]
    IN SumOver(quarters, "tokens") + Len(scores) * 50

PvgStart ==
    /\ rsa = NoCall /\ mcts = NoCall
    /\ \E c \in PvgConfigs :
          pick = [pc |-> "validate", op |-> "run_pvg", cfg |-> c,
                  round |-> 0, temperatures |-> <<>>,
                  best_solution |-> <<>>, best_score |-> 0 - 1,
                  all_scores |-> <<>>, total_tokens |-> 0]

\* config.validate()?
PvgValidateConfig ==
    /\ pick.pc = "validate"
    /\ pick.op = "run_pvg"
    /\ pick' = [pick EXCEPT !.pc = IF PvgValidate(pick.cfg) THEN "round" ELSE "err"]
    /\ UNCHANGED nonPickVars

\* a backend call of the round (generation, verification or refinement)
\* yields an error item: run_pvg returns Err
PvgCallFails ==
    /\ pick.pc = "round"
    /\ pick.op = "run_pvg"
    /\ pick.round < pick.cfg.num_rounds
    /\ pick' = [pick EXCEPT
                   !.pc = "err",
                   !.temperatures =
                       Append(@, PvgTemperature(pick.cfg, pick.round))]
    /\ UNCHANGED nonPickVars

\* one round of the loop with all its calls succeeding: the helpful and the
\* sneaky solutions, their scores, the token estimate and the best so far
PvgRound ==
    /\ pick.pc = "round"
    /\ pick.op = "run_pvg"
    /\ pick.round < pick.cfg.num_rounds
    /\ LET temperature == PvgTemperature(pick.cfg, pick.round)
           n == 2 * pick.cfg.num_solutions
       IN \E all_solutions \in [1..n -> PvgTexts], scores \in [1..n -> PvgScores] :
             LET round_best_idx == FirstMax(scores)
                 better == scores[round_best_idx] > pick.best_score
             IN pick' = [pick EXCEPT
                   !.round = @ + 1,
                   !.temperatures = Append(@, temperature),
                   !.total_tokens = @ + EstimateTokens(all_solutions, scores),
                   !.best_solution =
                       IF better
                       THEN <<pick.round, round_best_idx,
                              all_solutions[round_best_idx]>>
                       ELSE @,
                   !.best_score = IF better THEN scores[round_best_idx] ELSE @,
                   !.all_scores = IF better THEN scores ELSE @]
    /\ UNCHANGED nonPickVars

\* the loop is over: the Solution and the metadata
PvgReturn ==
    /\ pick.pc = "round"
    /\ pick.op = "run_pvg"
    /\ pick.round >= pick.cfg.num_rounds
    /\ pick' = [pick EXCEPT !.pc = "ok"]
    /\ UNCHANGED nonPickVars

PvgNext ==
    \/ PvgValidateConfig
    \/ PvgCallFails
    \/ PvgRound
    \/ PvgReturn

(***************************************************************************)
(* The specifications.                                                     *)
(***************************************************************************)
InitStream == StreamStart /\ StrategyIdle /\ SolutionIdle /\ WorkspaceNew /\ MarsIdle /\ CallsIdle

SpecStream == InitStream /\ [][StreamNext]_vars

InitStrategy == StrategyStart /\ StreamIdle /\ SolutionIdle /\ WorkspaceNew /\ MarsIdle /\ CallsIdle

SpecStrategy == InitStrategy /\ [][StrategyNext]_vars

InitSolution == SolutionStart /\ StreamIdle /\ StrategyIdle /\ WorkspaceNew /\ MarsIdle /\ CallsIdle

SpecSolution == InitSolution /\ [][SolutionNext]_vars

InitWorkspace == WorkspaceNew /\ StreamIdle /\ StrategyIdle /\ SolutionIdle /\ MarsIdle /\ CallsIdle

SpecWorkspace == InitWorkspace /\ [][WorkspaceNext]_vars

InitMars == MarsStart /\ WorkspaceNew /\ StreamIdle /\ StrategyIdle /\ SolutionIdle /\ CallsIdle

SpecMars == InitMars /\ [][MarsNext]_vars

InitSynthesis == SynthesisStart /\ StreamIdle /\ StrategyIdle /\ SolutionIdle /\ CallsIdle

SpecSynthesis == InitSynthesis /\ [][SynthesisNext]_vars

CoreIdle == StreamIdle /\ StrategyIdle /\ SolutionIdle /\ WorkspaceNew /\ MarsIdle

InitRsa == RsaStart /\ CoreIdle

SpecRsa == InitRsa /\ [][RsaNext]_vars

InitMcts == MctsStart /\ CoreIdle

SpecMcts == InitMcts /\ [][MctsNext]_vars

InitBestOfN == BestOfNStart /\ CoreIdle

SpecBestOfN == InitBestOfN /\ [][BestOfNNext]_vars

InitSelfConsistency == SelfConsistencyStart /\ CoreIdle

SpecSelfConsistency == InitSelfConsistency /\ [][SelfConsistencyNext]_vars

InitRto == RtoStart /\ CoreIdle

SpecRto == InitRto /\ [][RtoNext]_vars

InitConfig == ConfigStart /\ WorkspaceNew /\ StreamIdle /\ StrategyIdle /\ SolutionIdle /\ CallsIdle

SpecConfig == InitConfig /\ [][ConfigNext]_vars

InitPvg == PvgStart /\ CoreIdle

SpecPvg == InitPvg /\ [][PvgNext]_vars

(***************************************************************************)
(* C3: a strategy that consumes a backend stream treats the first          *)
(* Completed as the end of the stream: an item pulled after it changes     *)
(* neither the collected text, nor the token counters, nor whether the     *)
(* call succeeds.                                                          *)
(***************************************************************************)
C3_FirstCompletedEndsStream ==
    snap.seen =>
        /\ response_text = snap.text
        /\ call_tokens = snap.call_tokens
        /\ total_tokens = snap.total_tokens
        /\ result # "err"

(***************************************************************************)
(* C5: the total_tokens a strategy run returns equals the sum of the       *)
(* usage (input_tokens + output_tokens) of the Completed events the run    *)
(* observed.                                                               *)
(***************************************************************************)
C5_TotalTokensIsObservedUsage ==
    result = "ok" => total_tokens = observed

(***************************************************************************)
(* C4: MarsCoordinator::run never waits on the event channel: whatever the *)
(* configuration and the number of events the phases emit, no send finds   *)
(* the channel full while nothing receives from it.                        *)
(***************************************************************************)
C4_SendNeverBlocks ==
    ~(mphase \in Phases /\ mstep # "register" /\ ~CanSend)

C7_ReplaceKeepsLenAddIncrements ==
    [][\A t \in Tasks :
          /\ (task[t].op = "update" /\ task[t].pc = "locked" /\ task'[t].pc = "ret")
                => Len(solutions') = Len(solutions)
          /\ (task[t].op = "add" /\ task[t].pc = "located" /\ task'[t].pc = "ret")
                => Len(solutions') = Len(solutions) + 1]_vars

C7_Witness ==
    \E t \in Tasks :
        /\ task[t].pc = "ret"
        /\ task[t].op = "update"
        /\ ~task[t].ret.ok
        /\ Len(solutions) >= 2

(***************************************************************************)
(* C8: the add, replace and read operations several tasks run on one       *)
(* Workspace are linearizable in the order in which they get the lock:     *)
(* once no write guard is held the stored Vec is what the writes in that   *)
(* order leave (no write is lost), and every operation returns what it     *)
(* returns in that order (a read sees whole writes only).                  *)
(***************************************************************************)
C8_Linearizable ==
    /\ rw.writer = 0 => solutions = lin
    /\ \A t \in Tasks : task[t].pc = "ret" => task[t].ret = task[t].expect

C8_Witness ==
    \E t \in Tasks, u \in Tasks :
        /\ t # u
        /\ task[t].pc = "ret"
        /\ task[t].op = "get"
        /\ Len(task[t].ret.all) >= 1
        /\ task[u].pc = "located"
        /\ rw.writer = u

(***************************************************************************)
(* C9: the phases of run execute in the order exploration, aggregation     *)
(* (if enabled), strategy network (if enabled), verification, improvement, *)
(* synthesis: a phase starts only when every earlier phase that runs has   *)
(* finished, and the snapshot it works on holds every Solution the earlier *)
(* phases added.                                                           *)
(***************************************************************************)
Rank(phase) ==
    CASE phase = "exploration" -> 1
      [] phase = "aggregation" -> 2
      [] phase = "strategy_network" -> 3
      [] phase = "verification" -> 4
      [] phase = "improvement" -> 5
      [] OTHER -> 6

Runs(phase) ==
    CASE phase = "aggregation" -> mcfg.enable_aggregation
      [] phase = "strategy_network" -> mcfg.enable_strategy_network
      [] phase = "improvement" -> mcfg.max_iterations > 0
      [] OTHER -> TRUE

RECURSIVE SumAdds(_)
SumAdds(P) ==
    IF P = {} THEN 0
    ELSE LET p == CHOOSE p \in P : TRUE
         IN phaseLog[p].adds + SumAdds(P \ {p})

AddsBefore(phase) == SumAdds({p \in Phases : Rank(p) < Rank(phase)})

C9_PhasesInOrder ==
    /\ \A q \in Phases : phaseLog[q].started =>
          /\ Runs(q)
          /\ \A p \in Phases : Rank(p) < Rank(q) =>
                /\ Runs(p) => phaseLog[p].started
                /\ phaseLog[p].started => phaseLog[p].finished
    /\ \A q \in Phases : phaseLog[q].finished => phaseLog[q].started
    /\ Len(solutions) = SumAdds(Phases)
    /\ (mphase \in Phases /\ mphase # "exploration" /\ phaseLog[mphase].started)
          => /\ Len(msnap) >= AddsBefore(mphase)
             /\ \A i \in 1..AddsBefore(mphase) : msnap[i].id = solutions[i].id

C9_Witness ==
    /\ mphase = "done"
    /\ \A p \in Phases : phaseLog[p].finished
    /\ phaseLog["aggregation"].adds > 0
    /\ phaseLog["improvement"].adds > 0

(***************************************************************************)
(* C10: phase_synthesis takes the final Solution from the first rule that  *)
(* yields one, in the order majority voting, best verified, synthesized:   *)
(* a later rule is used only when no earlier rule yields a Solution, and   *)
(* the selection_method of the MarsOutput names the rule the answer comes  *)
(* from.                                                                   *)
(***************************************************************************)
MajorityYields(s) ==
    \/ Len(s) = 1
    \/ \E i \in 1..Len(s), k \in 1..Len(s) : i # k /\ s[i].answer = s[k].answer

VerifiedYields(s) == \E i \in 1..Len(s) : s[i].is_verified

C10_FirstRuleThatSucceeds ==
    /\ chosen.method = "MajorityVoting" =>
          /\ MajorityYields(msnap)
          /\ \E i \in 1..Len(msnap) :
                /\ msnap[i] = chosen.solution
                /\ Len(msnap) = 1 \/ AnswerCount(msnap, msnap[i].answer) >= 2
    /\ chosen.method = "BestVerified" =>
          /\ ~MajorityYields(msnap)
          /\ \E i \in 1..Len(msnap) :
                /\ msnap[i] = chosen.solution
                /\ msnap[i].is_verified
                /\ \A k \in 1..Len(msnap) : msnap[k].is_verified =>
                      msnap[k].verification_score <= msnap[i].verification_score
    /\ chosen.method = "Synthesized" =>
          /\ ~MajorityYields(msnap)
          /\ ~VerifiedYields(msnap)
          /\ msnap # <<>>
          /\ chosen.solution.agent_id = <<"synthesizer", 0>>
    /\ mphase = "failed" => msnap = <<>>
    /\ output.selection_method # "none" =>
          /\ output.selection_method = chosen.method
          /\ output.final_solution_id = chosen.solution.id
          /\ output.answer = chosen.solution.answer

C10_Witness ==
    /\ mphase = "done"
    /\ output.selection_method = "BestVerified"
    /\ Len(output.all_solutions) >= 2

(***************************************************************************)
(* C11: the MarsOutput run returns carries the number of improvement       *)
(* iterations that were executed, the sum of the token counts of the       *)
(* Solutions of the run, and the full Solution list of the workspace.      *)
(***************************************************************************)
IterationsExecuted ==
    Cardinality({i \in 1..Len(events) : events[i][1] = "ImprovementStarted"})

C11_OutputCarriesIterationsAndTokens ==
    mphase = "done" =>
        /\ output.iterations = IterationsExecuted
        /\ output.total_tokens = SumTokens(solutions)
        /\ output.all_solutions = solutions

(***************************************************************************)
(* C12: every RSA entry point (run_rsa and aggregate_rsa) answers an empty *)
(* population with AggregationError: a call on an empty input never ends   *)
(* with Ok.                                                                *)
(***************************************************************************)
C12_EmptyPopulationIsError ==
    (rsa.pc \in {"ok", "err"} /\ rsa.input = <<>>) => rsa.pc = "err"

(***************************************************************************)
(* C13: the Solution run_rsa returns for a non-empty input has the highest *)
(* score: no Solution of the input and no Solution of the final population *)
(* has a strictly higher verification_score.                               *)
(***************************************************************************)
C13_RunRsaReturnsHighestScore ==
    (rsa.pc = "ok" /\ rsa.entry = "run_rsa") =>
        /\ \A i \in 1..Len(rsa.input) :
              rsa.input[i].verification_score
                 <= rsa.best_solution[1].verification_score
        /\ \A i \in 1..Len(rsa.population) :
              rsa.population[i].verification_score
                 <= rsa.best_solution[1].verification_score

(***************************************************************************)
(* C14: after a completed search the visit count of the root equals        *)
(* num_simulations exactly.                                                *)
(***************************************************************************)
C14_RootVisitsEqualSimulations ==
    mcts.pc = "returned" =>
        mcts.nodes[mcts.root_idx].visits = mcts.cfg.num_simulations

(***************************************************************************)
(* C15: search returns the state of the root child with the highest visit  *)
(* count, the one added first (lowest position among the children of the   *)
(* root) when several children share the highest count.                    *)
(***************************************************************************)
C15_MostVisitedFirstInWins ==
    (mcts.pc = "returned" /\ mcts.nodes[mcts.root_idx].children # <<>>) =>
        mcts.best_state =
            mcts.nodes[BestChildKeepingFirst(
                mcts.nodes, mcts.nodes[mcts.root_idx].children)].state

(***************************************************************************)
(* C16: for any N >= 1, Best-of-N with BestOfNConfig::new(N) against a     *)
(* backend whose calls all succeed makes N generation calls and returns    *)
(* metadata with num_candidates = N and N entries in all_candidates.       *)
(***************************************************************************)
C16_GeneratesNCandidates ==
    (pick.op = "run_best_of_n" /\ pick.pc \in {"ok", "err"}
        /\ pick.cfg.num_candidates >= 1) =>
        /\ pick.pc = "ok"
        /\ pick.calls = pick.cfg.num_candidates
        /\ pick.num_candidates = pick.cfg.num_candidates
        /\ Len(pick.solutions) = pick.cfg.num_candidates

(***************************************************************************)
(* C17: for every selection method of Best-of-N, select_best_solution      *)
(* returns the candidate of the lowest index among those that tie on the   *)
(* highest selection score.                                                *)
(***************************************************************************)
C17_TiesGoToFirstOccurrence ==
    (pick.op \in {"run_best_of_n", "select_best_solution"} /\ pick.pc = "ok") =>
        /\ \A i \in 1..Len(pick.solutions) :
              SelectionKey(pick.solutions, i, pick.method, pick.temp_scale)
                 <= SelectionKey(pick.solutions, pick.selection.best_idx,
                                 pick.method, pick.temp_scale)
        /\ \A i \in 1..(pick.selection.best_idx - 1) :
              SelectionKey(pick.solutions, i, pick.method, pick.temp_scale)
                 < SelectionKey(pick.solutions, pick.selection.best_idx,
                                pick.method, pick.temp_scale)

(***************************************************************************)
(* C18: for every voting strategy the consensus_score of self-consistency  *)
(* over K paths equals the number of paths whose extracted answer is the   *)
(* returned consensus answer, divided by K.                                *)
(***************************************************************************)
C18_ScoreIsWinnerShare ==
    (pick.op = "run_self_consistency" /\ pick.pc = "ok") =>
        pick.consensus_score.num * Len(pick.paths)
            = pick.consensus_score.den
                * VoteCounts(pick.paths)[pick.consensus_answer]

(***************************************************************************)
(* C19: under MajorityVote, when several extracted answers tie for the     *)
(* highest vote count, the consensus answer is the tied answer seen first  *)
(* among the paths.                                                        *)
(***************************************************************************)
C19_MajorityTieGoesToFirstSeen ==
    (pick.op = "run_self_consistency" /\ pick.pc = "ok"
        /\ pick.cfg.voting_strategy = "MajorityVote") =>
        pick.consensus_answer \in MajorityVoteFirstSeen(pick.paths)

(***************************************************************************)
(* C20: when fewer than 3 of the initial completions of MOA succeed and    *)
(* fallback_enabled is false, run_moa returns AggregationError and makes   *)
(* no critique or synthesis call: once phase 1 is over the run has failed  *)
(* and never left phase 1.                                                 *)
(***************************************************************************)
C20_FewCompletionsFailWithoutFallback ==
    (strat = "moa" /\ ~cfg.fallback_enabled /\ acc.succeeded < 3
        /\ (call # "initial" \/ result # "running")) =>
        (result = "err" /\ call = "initial")

(***************************************************************************)
(* C21: in run_rto the synthesis call C3 is made if and only if the code   *)
(* extracted from C1 and C2 differs after whitespace normalisation; when   *)
(* it does not differ exactly the three calls C1, Q2, C2 are made,         *)
(* synthesized_solution is None, the final answer equals the initial       *)
(* solution after code extraction, and total_tokens is the sum of the      *)
(* tokens of C1, Q2 and C2.                                                *)
(***************************************************************************)
CodeDiffers ==
    NormalizeWs(ExtractCode(pick.initial_solution))
        # NormalizeWs(ExtractCode(pick.second_solution))

C21_SynthesisIffCodeDiffers ==
    (pick.op = "run_rto" /\ (pick.pc = "ok" \/ Len(pick.calls) = 4)) =>
        /\ Contains(pick.calls, "c3") <=> CodeDiffers
        /\ ~CodeDiffers =>
              /\ pick.calls = <<"c1", "q2", "c2">>
              /\ pick.synthesized_solution = <<>>
              /\ ~pick.solutions_differed
              /\ ExtractCode(pick.final_answer)
                    = ExtractCode(pick.initial_solution)
              /\ pick.total_tokens
                    = pick.tokens_c1 + pick.tokens_q2 + pick.tokens_c2

C21_Witness ==
    /\ pick.op = "run_rto" /\ pick.pc = "ok"
    /\ ~pick.solutions_differed
    /\ pick.initial_solution # pick.second_solution
    /\ ExtractCode(pick.initial_solution) # pick.initial_solution
    /\ pick.total_tokens > 0
(***************************************************************************)
(* C22: when phase_verification has finished, every stored Solution's      *)
(* verification_passes + verification_failures equals the number of        *)
(* SolutionVerified events sent for its id, and a Solution with two        *)
(* passing verdicts is verified at the consensus threshold of 2.           *)
(***************************************************************************)
VerifiedEventsFor(id) ==
    Cardinality({k \in 1..Len(events) : events[k] = <<"SolutionVerified", id>>})

VerificationJustFinished ==
    /\ phaseLog["verification"].finished
    /\ mphase = "improvement"
    /\ mstep = "start"
    /\ mi.iteration = 0

C22_VerdictsMatchEvents ==
    VerificationJustFinished =>
        \A k \in 1..Len(solutions) :
            /\ solutions[k].verification_passes
                   + solutions[k].verification_failures
                 = VerifiedEventsFor(solutions[k].id)
            /\ (VerifiedEventsFor(solutions[k].id) = NumVerifiers
                    /\ mcfg.consensus_threshold = NumVerifiers)
                 => solutions[k].is_verified
(***************************************************************************)
(* C23: the improvement loop runs iterations 0 .. max_iterations - 1 at    *)
(* most; an iteration that finds no Solution both unverified and with      *)
(* fewer than 2 verification failures ends the loop, and an iteration that *)
(* finds some ends it only when it is the last one allowed; an iteration   *)
(* appends one clone per candidate, each with an id no stored Solution     *)
(* has and the phase Improved, after the records its snapshot holds, which *)
(* stay as they were.                                                      *)
(***************************************************************************)
ImprovementCandidates(ws) ==
    {k \in 1..Len(ws) :
        ~ws[k].is_verified /\ ws[k].verification_failures < 2}

C23_ImprovementIterations ==
    [][/\ mphase' = "improvement" => mi'.iteration < mcfg.max_iterations
       /\ (mphase = "improvement" /\ mstep = "start" /\ events' # events) =>
             /\ solutions' = solutions
             /\ IF ImprovementCandidates(solutions) = {}
                THEN mphase' = "synthesis"
                ELSE mphase' = "improvement" /\ mstep' = "item"
       /\ (mphase = "improvement" /\ mstep = "item" /\ events' # events) =>
             LET n == Len(solutions)
             IN /\ Len(solutions') = n + 1
                /\ SubSeq(solutions', 1, n) = solutions
                /\ solutions'[n + 1].phase = "Improved"
                /\ \A k \in 1..n : solutions[k].id # solutions'[n + 1].id
                /\ (mphase' # "improvement" \/ mstep' = "start") =>
                      /\ n + 1 = Len(msnap)
                                   + Cardinality(ImprovementCandidates(msnap))
                      /\ SubSeq(solutions', 1, Len(msnap)) = msnap
                /\ mphase' # "improvement" =>
                      mi.iteration + 1 = mcfg.max_iterations
                /\ (mphase' = "improvement" /\ mstep' = "start") =>
                      mi'.iteration = mi.iteration + 1
      ]_vars

\* two iterations have run: the second clones the first one's clone too
C23_Witness ==
    /\ mphase = "synthesis"
    /\ phaseLog["improvement"].finished
    /\ IterationsExecuted = 2
    /\ mcfg.max_iterations = 2
    /\ Len(solutions) = 4
    /\ solutions[4].phase = "Improved"
(***************************************************************************)
(* C24: majority voting over a list of at least 2 Solutions is a function  *)
(* of the list: the Solution it selects is the only one it can select for  *)
(* that list, also when several answers appear at least twice, and it is   *)
(* the first Solution of the list that carries the selected answer.        *)
(***************************************************************************)
C24_MajorityVotingIsDeterministic ==
    (Len(msnap) >= 2 /\ chosen.method = "MajorityVoting") =>
        /\ chosen.solution = FirstWithAnswer(msnap, chosen.solution.answer)
        /\ AnswerCount(msnap, chosen.solution.answer) >= 2
        /\ \A other \in SelectByMajorityVoting(msnap) : other = chosen.solution
(***************************************************************************)
(* C25: with elitism enabled, after every iteration of run_rsa the best    *)
(* Solution found so far is a member of the population.                    *)
(***************************************************************************)
C25_ElitismKeepsBestInPopulation ==
    (rsa.pc \in {"loop", "ok"} /\ rsa.entry = "run_rsa"
        /\ rsa.cfg.elitism_enabled /\ rsa.iteration >= 1) =>
        Contains(rsa.population, rsa.best_solution[1])
(***************************************************************************)
(* C26: every MarsConfig the builders make from MarsConfig::new() has at   *)
(* least as many temperatures as agents and at least 1 agent, so           *)
(* phase_exploration never slices the temperatures out of range and adds   *)
(* exactly num_agents Solutions.                                           *)
(***************************************************************************)
C26_BuiltConfigCoversAgents ==
    /\ mcfg.num_temperatures >= mcfg.num_agents
    /\ mcfg.num_agents >= 1
    /\ mphase # "panicked"
    /\ phaseLog["exploration"].finished =>
          phaseLog["exploration"].adds = mcfg.num_agents
(***************************************************************************)
(* C27: a stream that has ended without an error item contains a Completed *)
(* event exactly when the response body holds an object with done = true.  *)
(***************************************************************************)
BodyHasDone == \E i \in 1..Len(body) : IsDone(body[i])

C28_SearchIsIndependentOfEarlierCalls ==
    (mcts.pc = "returned" /\ mcts.searches >= 1) =>
        /\ mcts.nodes[mcts.root_idx].state = mcts.initial_state
        /\ mcts.nodes[mcts.root_idx].visits = mcts.cfg.num_simulations
(***************************************************************************)
(* C29: the generation temperature of round 0 of run_pvg is                *)
(* initial_temperature, the temperature of a round is never above that of  *)
(* the round before, and the temperature of every round is at least 0.1.   *)
(***************************************************************************)
C29_TemperatureSchedule ==
    pick.op = "run_pvg" =>
        /\ pick.temperatures # <<>> =>
              pick.temperatures[1] = pick.cfg.initial_temperature
        /\ \A k \in 2..Len(pick.temperatures) :
              pick.temperatures[k] <= pick.temperatures[k - 1]
        /\ \A k \in 1..Len(pick.temperatures) : pick.temperatures[k] >= 10
(***************************************************************************)
(* C30: when run_best_of_n returns, the token_count values of the          *)
(* candidates add up to the total_tokens of the metadata: a candidate's    *)
(* token_count is the usage of its own backend call.                       *)
(***************************************************************************)
C30_TokenCountsAddUpToTotal ==
    (pick.op = "run_best_of_n" /\ pick.pc = "ok") =>
        SumOver(pick.solutions, "token_count") = pick.total_tokens

====
